---- MODULE Spec2Model ----
(***************************************************************************)
(* Model of the photo watermark tool (src/main.py): the batch export       *)
(* pipeline (WatermarkApp.export_images, ExportThread.run), the output     *)
(* file naming and the interactive state the export reads.                 *)
(*                                                                         *)
(* Strings are sequences of one-character strings, so that concatenation,  *)
(* basename, splitext and lower() are computed as Python computes them.    *)
(* Paths follow posixpath.                                                 *)
(***************************************************************************)
EXTENDS Integers, Sequences, FiniteSets, TLC

\* Python's None for the fields that hold an object (thread, batch_settings).
\* An absent sequence or point (image_path, custom_position) is written << >>,
\* which is falsy as None is.
None == "None"

(***************************************************************************)
(* String helpers (Python str / os.path)                                   *)
(***************************************************************************)

\* Largest index of character c in s, 0 when absent (str.rfind, 1-based).
RFind(s, c) ==
    LET hits == {k \in 1..Len(s) : s[k] = c}
    IN  IF hits = {} THEN 0 ELSE CHOOSE k \in hits : \A j \in hits : j <= k

\* str.lower() on the characters the model uses.
LowerChar(c) ==
    CASE c = "P" -> "p"
      [] c = "N" -> "n"
      [] c = "G" -> "g"
      [] c = "J" -> "j"
      [] OTHER -> c

lower(s) == [k \in 1..Len(s) |-> LowerChar(s[k])]

\* os.path.basename: everything after the last "/".
basename(p) == SubSeq(p, RFind(p, "/") + 1, Len(p))

\* os.path.splitext: split at the last dot of the last component, unless
\* that component consists of leading dots only up to that dot.
splitext(p) ==
    LET sepIndex == RFind(p, "/")
        dotIndex == RFind(p, ".")
    IN  IF dotIndex > sepIndex
           /\ \E k \in (sepIndex + 1)..(dotIndex - 1) : p[k] # "."
        THEN <<SubSeq(p, 1, dotIndex - 1), SubSeq(p, dotIndex, Len(p))>>
        ELSE <<p, << >> >>

\* os.path.join(a, b) for two parts.
join(a, b) ==
    IF Len(b) > 0 /\ b[1] = "/" THEN b
    ELSE IF Len(a) = 0 \/ a[Len(a)] = "/" THEN a \o b
    ELSE a \o <<"/">> \o b

\* str.split("/"): the components of p between separators.
RECURSIVE Split(_)
Split(p) ==
    LET hits == {k \in 1..Len(p) : p[k] = "/"}
    IN  IF hits = {} THEN <<p>>
        ELSE LET k == CHOOSE x \in hits : \A y \in hits : x <= y
             IN  <<SubSeq(p, 1, k - 1)>> \o Split(SubSeq(p, k + 1, Len(p)))

\* The component loop of posixpath.normpath for an absolute path.
RECURSIVE NormComps(_, _)
NormComps(comps, acc) ==
    IF comps = << >> THEN acc
    ELSE LET c == Head(comps)
         IN  IF c = << >> \/ c = <<".">> THEN NormComps(Tail(comps), acc)
             ELSE IF c = <<".", ".">>
                  THEN NormComps(Tail(comps),
                                 IF acc = << >> THEN acc
                                 ELSE SubSeq(acc, 1, Len(acc) - 1))
             ELSE NormComps(Tail(comps), Append(acc, c))

\* Working directory of the process.
Cwd == <<"/", "w">>

\* os.path.abspath: join with the working directory when relative, then
\* normpath.  The normalised absolute path "/c1/c2/.../cn" is represented by
\* its component list <<c1, ..., cn>> (a bijection on normalised paths).
abspath(p) ==
    NormComps(Split(IF Len(p) > 0 /\ p[1] = "/" THEN p ELSE join(Cwd, p)), << >>)

\* os.path.dirname of a normalised absolute path, on component lists.
dirname(comps) == IF comps = << >> THEN << >> ELSE SubSeq(comps, 1, Len(comps) - 1)

(***************************************************************************)
(* ExportThread.generate_output_filename                                   *)
(***************************************************************************)

DotJpg == <<".", "j", "p", "g">>
DotPng == <<".", "p", "n", "g">>
DotBmp == <<".", "b", "m", "p">>
DotTiff == <<".", "t", "i", "f", "f">>
DotTif == <<".", "t", "i", "f">>
DotJpeg == <<".", "j", "p", "e", "g">>

\* Extensions remapped to .jpg for a JPEG export (line 295).
JpegRemapped == {DotPng, DotBmp, DotTiff, DotTif}

\* Variant: the suffix is appended after the extension.
generate_output_filename_SuffixLast(original_path, settings) ==
    LET base_name == splitext(basename(original_path))[1]
        ext0 == lower(splitext(original_path)[2])
        ext == IF settings.format = "JPEG"
               THEN (IF ext0 \in JpegRemapped THEN DotJpg ELSE ext0)
               ELSE IF settings.format = "PNG" THEN DotPng
               ELSE ext0
    IN  IF settings.naming_rule = "prefix"
        THEN settings.prefix \o base_name \o ext
        ELSE IF settings.naming_rule = "suffix"
        THEN base_name \o ext \o settings.suffix
        ELSE base_name \o ext

\* Variant: the source extension is compared without .lower().
generate_output_filename_NoLower(original_path, settings) ==
    LET base_name == splitext(basename(original_path))[1]
        ext0 == splitext(original_path)[2]
        ext == IF settings.format = "JPEG"
               THEN (IF ext0 \in JpegRemapped THEN DotJpg ELSE ext0)
               ELSE IF settings.format = "PNG" THEN DotPng
               ELSE ext0
    IN  IF settings.naming_rule = "prefix"
        THEN settings.prefix \o base_name \o ext
        ELSE IF settings.naming_rule = "suffix"
        THEN base_name \o settings.suffix \o ext
        ELSE base_name \o ext

generate_output_filename(original_path, settings) ==
    LET base_name == splitext(basename(original_path))[1]
        ext0 == lower(splitext(original_path)[2])
        ext == IF settings.format = "JPEG"
               THEN (IF ext0 \in JpegRemapped THEN DotJpg ELSE ext0)
               ELSE IF settings.format = "PNG" THEN DotPng
               ELSE ext0
    IN  IF settings.naming_rule = "prefix"
        THEN settings.prefix \o base_name \o ext
        ELSE IF settings.naming_rule = "suffix"
        THEN base_name \o settings.suffix \o ext
        ELSE base_name \o ext

(***************************************************************************)
(* Font resolution: get_font_for_text (export) and get_pil_font (preview). *)
(* A font file is named by its file name in the Fonts directory, a         *)
(* sequence of characters; << >> stands for None.  The text is a sequence  *)
(* of code points.  The font size plays no part in the selection.          *)
(***************************************************************************)
MsYh == <<"m", "s", "y", "h", ".", "t", "t", "c">>
MsYhBd == <<"m", "s", "y", "h", "b", "d", ".", "t", "t", "c">>
SimSunTtc == <<"s", "i", "m", "s", "u", "n", ".", "t", "t", "c">>
SimHeiTtf == <<"s", "i", "m", "h", "e", "i", ".", "t", "t", "f">>
ArialTtf == <<"a", "r", "i", "a", "l", ".", "t", "t", "f">>
ArialBd == <<"a", "r", "i", "a", "l", "b", "d", ".", "t", "t", "f">>
ArialI == <<"a", "r", "i", "a", "l", "i", ".", "t", "t", "f">>
ArialBi == <<"a", "r", "i", "a", "l", "b", "i", ".", "t", "t", "f">>
TimesTtf == <<"t", "i", "m", "e", "s", ".", "t", "t", "f">>
TimesBd == <<"t", "i", "m", "e", "s", "b", "d", ".", "t", "t", "f">>
TimesI == <<"t", "i", "m", "e", "s", "i", ".", "t", "t", "f">>
TimesBi == <<"t", "i", "m", "e", "s", "b", "i", ".", "t", "t", "f">>

\* The table `mapping`: regular, bold, italic, bold-italic file of a family.
mapping ==
    [ fam \in {"Microsoft YaHei", "SimSun", "SimHei", "Arial", "Times New Roman"} |->
        IF fam = "Microsoft YaHei" THEN <<MsYh, MsYhBd, << >>, << >> >>
        ELSE IF fam = "SimSun" THEN <<SimSunTtc, << >>, << >>, << >> >>
        ELSE IF fam = "SimHei" THEN <<SimHeiTtf, << >>, << >>, << >> >>
        ELSE IF fam = "Arial" THEN <<ArialTtf, ArialBd, ArialI, ArialBi>>
        ELSE <<TimesTtf, TimesBd, TimesI, TimesBi>> ]

\* select_variant (the same in both resolvers).
select_variant(fam, is_bold, is_italic) ==
    LET v == IF fam \in DOMAIN mapping THEN mapping[fam]
             ELSE << << >>, << >>, << >>, << >> >>
    IN  IF is_bold /\ is_italic /\ v[4] # << >>
        THEN [fname |-> v[4], real_bold |-> TRUE, real_italic |-> TRUE]
        ELSE IF is_bold /\ v[2] # << >>
        THEN [fname |-> v[2], real_bold |-> TRUE, real_italic |-> FALSE]
        ELSE IF is_italic /\ v[3] # << >>
        THEN [fname |-> v[3], real_bold |-> FALSE, real_italic |-> TRUE]
        ELSE [fname |-> v[1], real_bold |-> FALSE, real_italic |-> FALSE]

\* has_cjk (the same in both resolvers).
has_cjk(s) ==
    \E k \in 1..Len(s) :
        \/ 19968 <= s[k] /\ s[k] <= 40959
        \/ 13312 <= s[k] /\ s[k] <= 19903
        \/ 131072 <= s[k] /\ s[k] <= 173791

\* The list search_order both resolvers build: the three CJK families when
\* the text has a CJK code point, and the requested family inserted at
\* index 0 when it is not one of them.
search_order(family, text) ==
    LET cjk == IF has_cjk(text) THEN <<"Microsoft YaHei", "SimSun", "SimHei">>
               ELSE << >>
    IN  IF \E k \in 1..Len(cjk) : cjk[k] = family THEN cjk
        ELSE <<family>> \o cjk

\* The loop over search_order: the first family whose selected file exists
\* ends it, with `return ImageFont.truetype(fpath, size=size), ...`.
\* `probed` lists the families whose file was looked for on disk; `raised`
\* tells that the file exists and ImageFont.truetype raised on it
\* (disk.unloadable are the files of the Fonts directory it cannot open).
RECURSIVE FontLoop(_, _, _, _, _, _)
FontLoop(order, tried, probed, is_bold, is_italic, disk) ==
    IF order = << >>
    THEN [fpath |-> << >>, raised |-> FALSE, real_bold |-> FALSE,
          real_italic |-> FALSE, probed |-> probed]
    ELSE LET v == select_variant(Head(order), is_bold, is_italic)
         IN  IF v.fname = << >> \/ v.fname \in tried
             THEN FontLoop(Tail(order), tried, probed, is_bold, is_italic, disk)
             ELSE IF v.fname \in disk.files
             THEN [fpath |-> v.fname, raised |-> v.fname \in disk.unloadable,
                   real_bold |-> v.real_bold, real_italic |-> v.real_italic,
                   probed |-> Append(probed, Head(order))]
             ELSE FontLoop(Tail(order), tried \cup {v.fname},
                           Append(probed, Head(order)), is_bold, is_italic, disk)

\* A loaded font: a file of the Fonts directory, a font ImageFont.truetype
\* finds under the family name, or ImageFont.load_default().
FileFont(fname) == [file |-> fname, family |-> "", default |-> FALSE]
FamilyFont(family) == [file |-> << >>, family |-> family, default |-> FALSE]
DefaultFont == [file |-> << >>, family |-> "", default |-> TRUE]

\* The fallback of both resolvers when no file of the table exists:
\* ImageFont.truetype(family), and load_default() when that raises.
FallbackFont(family, disk) ==
    IF family \in disk.families THEN FamilyFont(family) ELSE DefaultFont

\* The values both resolvers return for the outcome r of the loop over
\* search_order `order`.  When ImageFont.truetype raised on the file found,
\* the outer except clause returns load_default() with both flags false:
\* no later family and no family name is tried.
ResolvedFont(family, disk, order, r) ==
    [font |-> IF r.raised THEN DefaultFont
              ELSE IF r.fpath # << >> THEN FileFont(r.fpath)
              ELSE FallbackFont(family, disk),
     has_real_bold |-> ~r.raised /\ r.real_bold,
     has_real_italic |-> ~r.raised /\ r.real_italic,
     search_order |-> order,
     probed |-> r.probed]

\* get_font_for_text.  disk.files are the files present in the Fonts
\* directory, disk.unloadable those of them ImageFont.truetype raises on,
\* disk.families the names ImageFont.truetype can open directly.
get_font_for_text(family, is_bold, is_italic, text, disk) ==
    ResolvedFont(family, disk, search_order(family, text),
                 FontLoop(search_order(family, text), {}, << >>,
                          is_bold, is_italic, disk))

\* The values of get_pil_font for the outcome r of the loop, with the
\* watermark_settings it leaves: the path of the file found is stored
\* before the file is loaded, so it is stored also when the load raises.
ResolvedPilFont(ws, family, disk, order, r) ==
    [font |-> IF r.raised THEN DefaultFont
              ELSE IF r.fpath # << >> THEN FileFont(r.fpath)
              ELSE FallbackFont(family, disk),
     has_real_bold |-> ~r.raised /\ r.real_bold,
     has_real_italic |-> ~r.raised /\ r.real_italic,
     search_order |-> order,
     probed |-> r.probed,
     watermark_settings |->
         IF r.fpath # << >>
         THEN [k \in DOMAIN ws \cup {"resolved_font_path"} |->
                  IF k = "resolved_font_path" THEN r.fpath ELSE ws[k]]
         ELSE ws]

\* WatermarkApp.get_pil_font on watermark_settings ws: the same resolution,
\* and the file found is stored under 'resolved_font_path'.
get_pil_font(ws, family, is_bold, is_italic, text, disk) ==
    ResolvedPilFont(ws, family, disk, search_order(family, text),
                    FontLoop(search_order(family, text), {}, << >>,
                             is_bold, is_italic, disk))

\* `sub in s` on strings.
Contains(s, sub) ==
    \E k \in 1..(Len(s) - Len(sub) + 1) : SubSeq(s, k, k + Len(sub) - 1) = sub

(***************************************************************************)
(* Inputs of the model                                                     *)
(***************************************************************************)

\* Source files the user can import.
PathA1 == <<"/", "a", "/", "p", ".", "p", "n", "g">>
PathA2 == <<"/", "a", "/", "c", ".", "j", "p", "g">>
PathO1 == <<"/", "o", "/", "q", ".", "j", "p", "e", "g">>
Paths == {PathA1, PathA2, PathO1}

\* Files Image.open / image.load() cannot decode.
Corrupt == {PathA2}

\* Directories that exist on disk, as normalised component lists.
ExistingDirs == { << <<"a">> >>, << <<"b">> >>, << <<"o">> >> }

\* Values the user can put into each widget.  The combo box texts
\* "原文件名"/"添加前缀"/"添加后缀" are written original/prefix/suffix and
\* "文本水印"/"图片水印" are written text/image.
FolderB == <<"/", "b">>
FolderASlash == <<"/", "a", "/">>
FolderN == <<"/", "n">>
PrefixW == <<"w", "_">>
SuffixW == <<"_", "w">>
TextDefault == <<27700, 21360, 25991, 23383>>
TextHi == <<72, 105>>

WidgetValues ==
    [ format |-> {"JPEG", "PNG"},
      quality |-> {90, 60},
      naming_rule |-> {"original", "prefix", "suffix"},
      prefix |-> {<< >>, PrefixW},
      suffix |-> {<< >>, SuffixW},
      watermark_type |-> {"text", "image"},
      text |-> {TextDefault, TextHi},
      font_family |-> {"Microsoft YaHei", "Arial"},
      opacity |-> {70, 30} ]

WidgetNames == DOMAIN WidgetValues

\* Values of output_folder_edit: empty, the source folder /a written with a
\* trailing slash, another existing folder, a folder that does not exist.
OutputFolders == {<< >>, FolderASlash, FolderB, FolderN}

\* Anchors offered by set_watermark_position in the model.
Anchors == {"bottom_right", "top_left"}
\* Colours offered by choose_color in the model.
Colors == { <<255, 255, 255, 180>>, <<255, 0, 0, 180>> }

\* A settings bag stored in templates.json by an earlier session: the
\* watermark_settings saved after a preview of bold Arial text.
StoredTemplate ==
    [ text |-> TextHi, font_family |-> "Arial", opacity |-> 30,
      position |-> "center", custom_position |-> <<30, 40>>,
      font_color |-> <<0, 0, 255, 180>>,
      is_bold |-> TRUE, is_italic |-> FALSE, resolved_font_path |-> ArialBd ]

\* A machine with the Windows fonts of the table, one without the Arial
\* files, one with none of the files, and one with all the files of which
\* arial.ttf and msyh.ttc are damaged: they exist and ImageFont.truetype
\* raises on them (ImageFont.truetype opens no family of the table by its
\* name on any of them).
WindowsFonts ==
    [ files |-> {MsYh, MsYhBd, SimSunTtc, SimHeiTtf, ArialTtf, ArialBd, ArialI,
                 ArialBi, TimesTtf, TimesBd, TimesI, TimesBi},
      unloadable |-> {},
      families |-> {} ]
NoArialFonts ==
    [ files |-> {MsYh, MsYhBd, SimSunTtc, SimHeiTtf, TimesTtf, TimesBd, TimesI,
                 TimesBi},
      unloadable |-> {},
      families |-> {} ]
NoFonts == [ files |-> {}, unloadable |-> {}, families |-> {"DejaVuSans"} ]
DamagedFonts ==
    [ files |-> {MsYh, MsYhBd, SimSunTtc, SimHeiTtf, ArialTtf, ArialBd, ArialI,
                 ArialBi, TimesTtf, TimesBd, TimesI, TimesBi},
      unloadable |-> {ArialTtf, MsYh},
      families |-> {} ]

\* Names typed into template_name_edit or chosen in template_combo.
TemplateNames == {"t", "u"}

\* A settings bag stored by an earlier session before any preview was
\* rendered: the initial watermark_settings with the anchor top_left, and no
\* 'resolved_font_path' key.
StoredEarly ==
    [ text |-> TextDefault, font_family |-> "Microsoft YaHei", opacity |-> 70,
      position |-> "top_left", custom_position |-> << >>,
      font_color |-> <<255, 255, 255, 180>>,
      is_bold |-> FALSE, is_italic |-> FALSE ]

\* templates.json at start-up: no file, a file holding the template t, or a
\* file holding t and u.  A dict keeps its keys in insertion order:
\* << [name, settings], ... >>.
TemplateFiles ==
    { << >>,
      << [name |-> "t", settings |-> StoredTemplate] >>,
      << [name |-> "t", settings |-> StoredTemplate],
         [name |-> "u", settings |-> StoredEarly] >> }

(***************************************************************************)
(* Bounds                                                                  *)
(***************************************************************************)
\* Length of the image list.
MaxImages == 3
\* Calls of export_images.
MaxExports == 2
\* Setting changes, plus the image list and output folder operations made
\* once the first batch has been started.
MaxLiveOps == 1
\* The same, in the specification of the fonts.
MaxFontOps == 3
\* The same, in the specification of the placement.
MaxPlaceOps == 3
\* Calls of export_images in the specification of the fonts and in that of
\* the placement: one batch, so that no worker is replaced there.
MaxFontExports == 1
MaxPlaceExports == 1

(***************************************************************************)
(* State                                                                   *)
(***************************************************************************)
VARIABLES
    image_list,          \* WatermarkApp.image_list, the one list object
    ui,                  \* current values of the widgets
    dicts,               \* dict objects: "app" is WatermarkApp.watermark_settings,
                         \* "snap" the copy made by get_export_settings
    templates,           \* WatermarkApp.templates
    live_ops,            \* operations counted against op_budget
    export_calls,        \* number of calls of export_images so far
    last_call,           \* the latest call of export_images, << >> before the
                         \* first (history)
    current_image,       \* WatermarkApp.current_image, << >> for None
    preview_draw,        \* the text drawn by the latest preview render, << >>
                         \* when the preview shows no text (history)
    dragging,            \* WatermarkApp.dragging
    drag_start_pos,      \* WatermarkApp.drag_start_pos, << >> for None
    original_watermark_pos, \* WatermarkApp.original_watermark_pos, << >> for None
    last_placement,      \* the latest placement operation: "none", "anchor"
                         \* or "drag" (history)
    thread,              \* fields of the ExportThread, None before the first batch
    pc,                  \* position of ExportThread.run
    i,                   \* items the for loop has taken from the list
    image_path,          \* loop variable of run
    success_count,
    error_count,
    errors,
    progress,            \* progress_updated signals emitted by the batch
    finished,            \* finished signals emitted by the batch
    attempts,            \* completed job attempts of the batch (history)
    writes,              \* files opened for writing by the batch (history)
    export_draw,         \* the text drawn by the latest export render of the
                         \* batch, << >> when none (history)
    batch_list,          \* image_list when the batch was started (history)
    batch_settings,      \* export settings when the batch was started (history)
    replaced,            \* the ExportThreads that were running when
                         \* self.export_thread was bound to a new one, and
                         \* are running still
    fn_path,             \* argument of a single generate_output_filename call
    fn_settings,         \* settings of that call
    fn_out,              \* its result: << >> before the call, <<name>> after
    args,                \* arguments of a single call of a mapper or resolver
    ret,                 \* results of such calls: << >> before, <<value>> after
    fonts,               \* the fonts of the machine: files of the Fonts
                         \* directory and families that open by name
    preview_label,       \* <<width(), height()>> of the preview widget
    op_budget,           \* number of counted operations of a behaviour
    export_budget        \* number of calls of export_images of a behaviour

vars == <<image_list, ui, dicts, templates, live_ops, export_calls, last_call,
          current_image, preview_draw, dragging, drag_start_pos,
          original_watermark_pos, last_placement,
          thread, pc, i, image_path, success_count, error_count, errors,
          progress, finished, attempts, writes, export_draw, batch_list,
          batch_settings, replaced, fn_path, fn_settings, fn_out, args, ret,
          fonts, preview_label, op_budget, export_budget>>

callVars == <<args, ret>>
envVars == <<fonts, preview_label, op_budget, export_budget>>
dragVars == <<dragging, drag_start_pos, original_watermark_pos>>
appState == <<image_list, ui, dicts, templates, live_ops, export_calls, last_call,
              current_image, preview_draw, dragVars, last_placement>>
threadState == <<thread, pc, i, image_path, success_count, error_count, errors,
                 progress, finished, attempts, writes, export_draw, batch_list,
                 batch_settings>>
runState == <<threadState, replaced>>
fnVars == <<fn_path, fn_settings, fn_out, callVars, envVars>>
appVars == <<appState, fnVars>>
runVars == <<runState, fnVars>>

\* WatermarkApp.__init__: the initial watermark_settings (fields the export
\* reads); 'resolved_font_path' is absent until a preview sets it.
InitialWatermarkSettings ==
    [ text |-> TextDefault, font_family |-> "Microsoft YaHei", opacity |-> 70,
      position |-> "bottom_right", custom_position |-> << >>,
      font_color |-> <<255, 255, 255, 180>>,
      is_bold |-> FALSE, is_italic |-> FALSE ]

\* init_ui: the initial widget values.
InitialWidgets ==
    [ format |-> "JPEG", quality |-> 90, naming_rule |-> "original",
      prefix |-> << >>, suffix |-> << >>, watermark_type |-> "text",
      output_folder |-> << >>, text |-> TextDefault,
      font_family |-> "Microsoft YaHei", opacity |-> 70,
      is_bold |-> FALSE, is_italic |-> FALSE, template_combo |-> "" ]

\* dict.update: the keys of bag are added to d or overwrite those of d.
DictUpdate(d, bag) ==
    [k \in DOMAIN d \cup DOMAIN bag |-> IF k \in DOMAIN bag THEN bag[k] ELSE d[k]]

\* `template_name in self.templates`.
HasTemplate(tpls, template_name) ==
    \E k \in 1..Len(tpls) : tpls[k].name = template_name

\* self.templates[template_name].
TemplateOf(tpls, template_name) ==
    tpls[CHOOSE k \in 1..Len(tpls) : tpls[k].name = template_name].settings

\* self.templates[template_name] = settings: an existing key keeps its
\* place, a new key goes to the end.
TemplateStore(tpls, template_name, settings) ==
    IF HasTemplate(tpls, template_name)
    THEN [k \in 1..Len(tpls) |->
             IF tpls[k].name = template_name
             THEN [name |-> template_name, settings |-> settings]
             ELSE tpls[k]]
    ELSE Append(tpls, [name |-> template_name, settings |-> settings])

\* del self.templates[template_name].
TemplateDelete(tpls, template_name) ==
    SelectSeq(tpls, LAMBDA e : e.name # template_name)

\* update_template_combo: the combo box is emptied and refilled with the
\* keys of templates; its current item becomes the first key, and the
\* currentTextChanged signal of that change calls load_template, which
\* updates watermark_settings ws with the first template.  The result is
\* the current text of the combo box and the watermark_settings.
update_template_combo(tpls, ws) ==
    IF tpls = << >>
    THEN [template_combo |-> "", watermark_settings |-> ws]
    ELSE [template_combo |-> tpls[1].name,
          watermark_settings |-> DictUpdate(ws, tpls[1].settings)]

\* The state after WatermarkApp.__init__: load_templates reads templates.json
\* when it exists and fills the combo box, which loads the first template
\* (no preview is rendered, no image being selected).
InitApp ==
    /\ image_list = << >>
    /\ templates \in TemplateFiles
    /\ LET c == update_template_combo(templates, InitialWatermarkSettings)
       IN  /\ ui = [InitialWidgets EXCEPT !.template_combo = c.template_combo]
           /\ dicts = [app |-> c.watermark_settings,
                       snap |-> InitialWatermarkSettings]
    /\ live_ops = 0
    /\ export_calls = 0
    /\ last_call = << >>
    /\ current_image = << >>
    /\ preview_draw = << >>
    /\ dragging = FALSE
    /\ drag_start_pos = << >>
    /\ original_watermark_pos = << >>
    /\ last_placement = "none"
    /\ thread = None
    /\ pc = "idle"
    /\ i = 0
    /\ image_path = << >>
    /\ success_count = 0
    /\ error_count = 0
    /\ errors = << >>
    /\ progress = << >>
    /\ finished = << >>
    /\ attempts = << >>
    /\ writes = << >>
    /\ export_draw = << >>
    /\ batch_list = << >>
    /\ batch_settings = None
    /\ replaced = << >>

\* No single call of a pure function is under way.
NoCall ==
    /\ fn_path = << >>
    /\ fn_settings = [format |-> "JPEG", naming_rule |-> "original",
                      prefix |-> << >>, suffix |-> << >>]
    /\ fn_out = << >>
    /\ args = << >>
    /\ ret = << >>

\* The application on a machine with the Windows fonts and a preview widget
\* of 400x300.  No image is selected for preview in this specification.
Init ==
    /\ InitApp
    /\ NoCall
    /\ fonts = WindowsFonts
    /\ preview_label = <<400, 300>>
    /\ op_budget = MaxLiveOps
    /\ export_budget = MaxExports

(***************************************************************************)
(* Interactive layer: WatermarkApp                                         *)
(***************************************************************************)

\* An import, a clear or an output folder selection: counted against
\* the budget once a batch has been started.
LiveOp ==
    IF pc = "idle" THEN UNCHANGED live_ops
    ELSE live_ops < op_budget /\ live_ops' = live_ops + 1

\* A setting change: always counted against the budget.
SettingOp == live_ops < op_budget /\ live_ops' = live_ops + 1

\* What a compositor draws for a text watermark: the font, whether it counts
\* as a real bold, the number of draw.text passes of the glyph run (4 for
\* the pseudo-bold, 1 otherwise), the bold flag it was asked for and the
\* placement taken by the mapper.
TextDraw(font, has_real_bold, is_bold, ws) ==
    [ font |-> font,
      has_real_bold |-> has_real_bold,
      is_bold |-> is_bold,
      passes |-> IF is_bold /\ ~has_real_bold THEN 4 ELSE 1,
      placement |-> IF ws.custom_position # << >> THEN "custom" ELSE "anchor",
      position |-> ws.position ]

\* The result of add_text_watermark for the font r that get_pil_font
\* returned: the watermark_settings it leaves and the draw.
DrawnWith(r, ws, widgets) ==
    [watermark_settings |-> r.watermark_settings,
     draw |-> <<TextDraw(r.font, r.has_real_bold, widgets.is_bold, ws)>>]

\* WatermarkApp.add_text_watermark on watermark_settings ws: the new
\* watermark_settings (get_pil_font stores the file it found) and the draw.
add_text_watermark(ws, widgets, disk) ==
    IF widgets.text = << >>
    THEN [watermark_settings |-> ws, draw |-> << >>]
    ELSE DrawnWith(get_pil_font(ws, widgets.font_family, widgets.is_bold,
                                widgets.is_italic, widgets.text, disk),
                   ws, widgets)

\* update_preview: nothing happens when no image is selected or the image
\* cannot be opened; otherwise the preview compositor runs on the widgets.
update_preview(ws, widgets, image, shown, disk) ==
    IF image = << >> \/ image \in Corrupt
    THEN [watermark_settings |-> ws, draw |-> shown]
    ELSE IF widgets.watermark_type = "text"
    THEN add_text_watermark(ws, widgets, disk)
    ELSE [watermark_settings |-> ws, draw |-> << >>]

\* The handler goes on to update_preview with watermark_settings ws.
ThenPreview(ws) ==
    \E p \in {update_preview(ws, ui', current_image', preview_draw, fonts)} :
        /\ dicts' = [dicts EXCEPT !.app = p.watermark_settings]
        /\ preview_draw' = p.draw

\* add_image_to_list (called by the three import handlers).
add_image_to_list(file_path) ==
    /\ Len(image_list) < MaxImages
    /\ \A k \in 1..Len(image_list) : image_list[k] # file_path
    /\ image_list' = Append(image_list, file_path)
    /\ LiveOp
    /\ UNCHANGED <<ui, dicts, templates, export_calls, last_call,
                   current_image, preview_draw, dragVars, last_placement>>
    /\ UNCHANGED runVars

\* clear_image_list.
clear_image_list ==
    /\ image_list # << >>
    /\ image_list' = << >>
    /\ current_image' = << >>
    /\ preview_draw' = << >>
    /\ LiveOp
    /\ UNCHANGED <<ui, dicts, templates, export_calls, last_call,
                   dragVars, last_placement>>
    /\ UNCHANGED runVars

\* on_image_selected: an item of the list is clicked.
on_image_selected(file_path) ==
    /\ \E k \in 1..Len(image_list) : image_list[k] = file_path
    /\ current_image # file_path
    /\ current_image' = file_path
    /\ UNCHANGED ui
    /\ ThenPreview(dicts.app)
    /\ UNCHANGED <<image_list, templates, live_ops, export_calls, last_call,
                   dragVars, last_placement>>
    /\ UNCHANGED runVars

\* The widgets whose change signal is connected to update_preview.
PreviewWidgets ==
    {"text", "font_family", "is_bold", "is_italic", "opacity", "watermark_type"}

\* The user changes the value of one widget (combo box, check box, slider,
\* line edit).  The change handlers update labels and visibility, and those
\* of the watermark widgets the preview.
EditWidget(w, v) ==
    /\ SettingOp
    /\ ui[w] # v
    /\ ui' = [ui EXCEPT ![w] = v]
    /\ UNCHANGED current_image
    /\ IF w \in PreviewWidgets
       THEN ThenPreview(dicts.app)
       ELSE UNCHANGED <<dicts, preview_draw>>
    /\ UNCHANGED <<image_list, templates, export_calls, last_call,
                   dragVars, last_placement>>
    /\ UNCHANGED runVars

\* select_output_folder, or typing into output_folder_edit.
select_output_folder(folder_path) ==
    /\ ui.output_folder # folder_path
    /\ ui' = [ui EXCEPT !.output_folder = folder_path]
    /\ LiveOp
    /\ UNCHANGED <<image_list, dicts, templates, export_calls, last_call,
                   current_image, preview_draw, dragVars, last_placement>>
    /\ UNCHANGED runVars

\* set_watermark_position.
set_watermark_position(position) ==
    /\ SettingOp
    /\ UNCHANGED <<ui, current_image>>
    /\ ThenPreview([dicts.app EXCEPT !.position = position,
                                     !.custom_position = << >>])
    /\ last_placement' = "anchor"
    /\ <<dicts', last_placement'>> # <<dicts, last_placement>>
    /\ UNCHANGED <<image_list, templates, export_calls, last_call, dragVars>>
    /\ UNCHANGED runVars

\* choose_color with a valid colour picked in the dialog.
choose_color(color) ==
    /\ SettingOp
    /\ UNCHANGED <<ui, current_image>>
    /\ ThenPreview([dicts.app EXCEPT !.font_color = color])
    /\ dicts' # dicts
    /\ UNCHANGED <<image_list, templates, export_calls, last_call,
                   dragVars, last_placement>>
    /\ UNCHANGED runVars

\* update_current_settings: the widget values written into watermark_settings.
update_current_settings(ws) ==
    DictUpdate(ws, [text |-> ui.text, font_family |-> ui.font_family,
                    opacity |-> ui.opacity, is_bold |-> ui.is_bold,
                    is_italic |-> ui.is_italic])

\* save_template with a non-empty template name: the widget values are
\* written into watermark_settings, a copy of it is stored under the name,
\* and update_template_combo loads the first template and renders the
\* preview.
save_template(name) ==
    /\ SettingOp
    /\ \E ws \in {update_current_settings(dicts.app)} :
       \E tpls \in {TemplateStore(templates, name, ws)} :
       \E c \in {update_template_combo(tpls, ws)} :
           /\ templates' = tpls
           /\ ui' = [ui EXCEPT !.template_combo = c.template_combo]
           /\ UNCHANGED current_image
           /\ ThenPreview(c.watermark_settings)
    /\ UNCHANGED <<image_list, export_calls, last_call, dragVars, last_placement>>
    /\ UNCHANGED runVars

\* load_template, called by the currentTextChanged signal of template_combo
\* when the user chooses template_name (the later definition of
\* update_ui_from_settings, which does nothing, is the one in effect, so the
\* other widgets keep their values).
load_template(template_name) ==
    /\ SettingOp
    /\ HasTemplate(templates, template_name)
    /\ ui' = [ui EXCEPT !.template_combo = template_name]
    /\ UNCHANGED current_image
    /\ \E ws \in {DictUpdate(dicts.app, TemplateOf(templates, template_name))} :
           ThenPreview(ws)
    /\ UNCHANGED <<image_list, templates, export_calls, last_call,
                   dragVars, last_placement>>
    /\ UNCHANGED runVars

\* delete_template, the question answered with Yes: the template chosen in
\* template_combo is deleted and update_template_combo loads the first of
\* those that remain.
delete_template ==
    /\ SettingOp
    /\ HasTemplate(templates, ui.template_combo)
    /\ \E tpls \in {TemplateDelete(templates, ui.template_combo)} :
       \E c \in {update_template_combo(tpls, dicts.app)} :
           /\ templates' = tpls
           /\ ui' = [ui EXCEPT !.template_combo = c.template_combo]
           /\ UNCHANGED current_image
           /\ IF tpls = << >>
              THEN UNCHANGED <<dicts, preview_draw>>
              ELSE ThenPreview(c.watermark_settings)
    /\ UNCHANGED <<image_list, export_calls, last_call, dragVars, last_placement>>
    /\ UNCHANGED runVars

\* The size of an image file, <<0, 0>> when it cannot be opened.
ImageSize(path) ==
    IF path = PathA1 THEN <<800, 600>>
    ELSE IF path = PathO1 THEN <<1600, 1200>>
    ELSE <<0, 0>>

\* get_current_watermark_position: the position of the watermark in the
\* preview, << >> for None (no image, or an exception on the way).
get_current_watermark_position(ws, image, label) ==
    IF image = << >> \/ image \in Corrupt
       \/ ImageSize(image)[1] = 0 \/ ImageSize(image)[2] = 0
    THEN << >>
    ELSE LET preview_width == label[1]
             preview_height == label[2]
             position == ws.position
         IN  IF ws.custom_position # << >> THEN ws.custom_position
             ELSE IF position = "top_left" THEN <<20, 20>>
             ELSE IF position = "top_center"
                  THEN <<(preview_width \div 2) - 50, 20>>
             ELSE IF position = "top_right" THEN <<preview_width - 100 - 20, 20>>
             ELSE IF position = "middle_left"
                  THEN <<20, (preview_height \div 2) - 15>>
             ELSE IF position = "center"
                  THEN <<(preview_width \div 2) - 50, (preview_height \div 2) - 15>>
             ELSE IF position = "middle_right"
                  THEN <<preview_width - 100 - 20, (preview_height \div 2) - 15>>
             ELSE IF position = "bottom_left"
                  THEN <<20, preview_height - 30 - 20>>
             ELSE IF position = "bottom_center"
                  THEN <<(preview_width \div 2) - 50, preview_height - 30 - 20>>
             ELSE IF position = "bottom_right"
                  THEN <<preview_width - 100 - 20, preview_height - 30 - 20>>
             ELSE <<20, 20>>

\* is_click_on_watermark: QRect(x, y, 100, 30).contains(click_pos).
is_click_on_watermark(click_pos, ws, image, label) ==
    LET current_pos == get_current_watermark_position(ws, image, label)
    IN  /\ current_pos # << >>
        /\ current_pos[1] <= click_pos[1] /\ click_pos[1] <= current_pos[1] + 99
        /\ current_pos[2] <= click_pos[2] /\ click_pos[2] <= current_pos[2] + 29

\* The anchor after current_pos in the list `positions` of on_preview_click,
\* bottom_right when current_pos is not in the list (ValueError).
NextAnchor(current_pos) ==
    IF current_pos = "top_left" THEN "top_center"
    ELSE IF current_pos = "top_center" THEN "top_right"
    ELSE IF current_pos = "top_right" THEN "middle_left"
    ELSE IF current_pos = "middle_left" THEN "center"
    ELSE IF current_pos = "center" THEN "middle_right"
    ELSE IF current_pos = "middle_right" THEN "bottom_left"
    ELSE IF current_pos = "bottom_left" THEN "bottom_center"
    ELSE IF current_pos = "bottom_center" THEN "bottom_right"
    ELSE IF current_pos = "bottom_right" THEN "top_left"
    ELSE "bottom_right"

\* on_preview_click with the left button at pos: a click on the watermark
\* starts a drag, a click elsewhere moves the watermark to the next anchor.
\* The handler does not look at self.dragging: a press on the watermark
\* during a drag starts the drag again from pos and the custom position.
on_preview_click(pos) ==
    /\ current_image # << >>
    /\ IF is_click_on_watermark(pos, dicts.app, current_image, preview_label)
       THEN /\ dragging' = TRUE
            /\ drag_start_pos' = pos
            /\ original_watermark_pos' = dicts.app.custom_position
            /\ UNCHANGED <<ui, current_image, dicts, preview_draw,
                           live_ops, last_placement>>
       ELSE /\ SettingOp
            /\ UNCHANGED <<ui, current_image>>
            /\ ThenPreview([dicts.app EXCEPT
                               !.position = NextAnchor(dicts.app.position),
                               !.custom_position = << >>])
            /\ last_placement' = "anchor"
            /\ UNCHANGED dragVars
    /\ UNCHANGED <<image_list, templates, export_calls, last_call>>
    /\ UNCHANGED runVars

\* on_preview_drag at pos while the button is held.  With no position
\* remembered at the click, the position is taken from
\* get_current_watermark_position; the handler ends with an exception when
\* that returns None.
on_preview_drag(pos) ==
    /\ dragging
    /\ current_image # << >>
    /\ SettingOp
    /\ LET current_pos == get_current_watermark_position(dicts.app, current_image,
                                                          preview_label)
           from == IF original_watermark_pos # << >>
                   THEN original_watermark_pos ELSE current_pos
       IN  /\ from # << >>
           /\ UNCHANGED <<ui, current_image>>
           /\ ThenPreview([dicts.app EXCEPT !.custom_position =
                              << from[1] + (pos[1] - drag_start_pos[1]),
                                 from[2] + (pos[2] - drag_start_pos[2]) >>])
    /\ last_placement' = "drag"
    /\ UNCHANGED <<image_list, templates, export_calls, last_call, dragVars>>
    /\ UNCHANGED runVars

\* on_preview_release while dragging.
on_preview_release ==
    /\ dragging
    /\ dragging' = FALSE
    /\ drag_start_pos' = << >>
    /\ original_watermark_pos' = << >>
    /\ UNCHANGED <<image_list, ui, dicts, templates, live_ops, export_calls,
                   last_call, current_image, preview_draw, last_placement>>
    /\ UNCHANGED runVars

\* Variant: the export settings refer to the live watermark_settings dict.
WatermarkSettingsCopy_Alias == "app"

\* The dict object that holds the 'watermark_settings' entry of the export
\* settings: dict.copy() makes a new object.
WatermarkSettingsCopy == "snap"

\* get_export_settings, given the current watermark_settings.
get_export_settings ==
    [ format |-> ui.format,
      quality |-> ui.quality,
      naming_rule |-> ui.naming_rule,
      prefix |-> ui.prefix,
      suffix |-> ui.suffix,
      watermark_settings |-> WatermarkSettingsCopy,
      watermark_type |-> ui.watermark_type,
      resolved_font_path |->
          IF "resolved_font_path" \in DOMAIN dicts.app
          THEN dicts.app.resolved_font_path ELSE << >> ]

\* The folder check of export_images: some image lies in the output folder.
InSourceFolder(output_folder) ==
    \E k \in 1..Len(image_list) :
        dirname(abspath(image_list[k])) = abspath(output_folder)

\* The list object the ExportThread iterates: the caller's list itself.
ThreadImageList == image_list

\* The settings the worker reads, with the watermark_settings entry looked up.
WorkerSettings ==
    [thread.settings EXCEPT !.watermark_settings = dicts[@]]

\* What get_export_settings would return now, with watermark_settings by value.
LiveSettings ==
    [get_export_settings EXCEPT !.watermark_settings = dicts.app]

ResetRun ==
    /\ pc' = "next"
    /\ i' = 0
    /\ image_path' = << >>
    /\ success_count' = 0
    /\ error_count' = 0
    /\ errors' = << >>
    /\ progress' = << >>
    /\ finished' = << >>
    /\ attempts' = << >>
    /\ writes' = << >>
    /\ export_draw' = << >>

\* History record of a call of export_images: whether the output folder was
\* the containing directory of an input path, and the outcome: "no_images",
\* "no_folder" and "source_folder" are the three QMessageBox warnings,
\* "started" a started worker.
Call(outcome) ==
    [in_source_folder |->
         \E p \in {image_list[k] : k \in 1..Len(image_list)} :
             abspath(ui.output_folder) = dirname(abspath(p)),
     outcome |-> outcome]

\* The worker self.export_thread refers to, as it goes on when the
\* attribute is bound to another ExportThread: the image list it iterates is
\* still the caller's list, its settings are the dict it was given, with
\* the copy of watermark_settings made for it.
Replaced ==
    [ output_folder |-> thread.output_folder,
      settings |-> WorkerSettings,
      pc |-> pc,
      i |-> i,
      image_path |-> image_path,
      success_count |-> success_count,
      error_count |-> error_count,
      errors |-> errors,
      progress |-> progress,
      writes |-> writes,
      export_draw |-> export_draw ]

\* export_images.  The handler does not look at a worker that is running: a
\* call during a batch starts another ExportThread and binds
\* self.export_thread to it, and the first one runs on (its run frame holds
\* it, its signals stay connected).  The variables thread, pc, ... are those
\* of the thread self.export_thread refers to.
export_images ==
    /\ export_calls < export_budget
    /\ export_calls' = export_calls + 1
    /\ UNCHANGED <<image_list, ui, templates, live_ops,
                   current_image, preview_draw, dragVars, last_placement>>
    /\ IF image_list = << >>
       THEN /\ last_call' = <<Call("no_images")>>
            /\ UNCHANGED dicts
            /\ UNCHANGED runVars
       ELSE IF ui.output_folder = << >>
       THEN /\ last_call' = <<Call("no_folder")>>
            /\ UNCHANGED dicts
            /\ UNCHANGED runVars
       ELSE IF InSourceFolder(ui.output_folder)
       THEN /\ last_call' = <<Call("source_folder")>>
            /\ dicts' = [dicts EXCEPT !.app = update_current_settings(@)]
            /\ UNCHANGED runVars
       ELSE /\ last_call' = <<Call("started")>>
            /\ LET ws == update_current_settings(dicts.app)
               IN  dicts' = [dicts EXCEPT !.app = ws, ![WatermarkSettingsCopy] = ws]
            /\ thread' = [output_folder |-> ui.output_folder,
                          settings |-> get_export_settings]
            /\ batch_list' = image_list
            /\ batch_settings' =
                   [get_export_settings EXCEPT
                       !.watermark_settings = update_current_settings(dicts.app)]
            /\ replaced' = IF pc \in {"next", "emit", "load", "save"}
                           THEN Append(replaced, Replaced)
                           ELSE replaced
            /\ ResetRun
            /\ UNCHANGED fnVars

(***************************************************************************)
(* Export worker: ExportThread.run                                         *)
(***************************************************************************)

\* str(e) of the exceptions a job can raise.
DecodeMsg == <<"d", "e", "c", "o", "d", "e">>
NoDirMsg == <<"n", "o", "d", "i", "r">>
EncodeMsg == <<"e", "n", "c", "o", "d", "e">>

\* Variant: the entry carries the whole path instead of the basename.
ErrorEntry_FullPath(path, msg) == path \o <<":", " ">> \o msg

\* The entry appended to errors by the except clause.
ErrorEntry(path, msg) == basename(path) \o <<":", " ">> \o msg

\* History record of a finished attempt on the current job, with the settings
\* the worker read for it.
Attempt(ok, msg) ==
    [index |-> i, path |-> image_path, ok |-> ok, msg |-> msg,
     used |-> WorkerSettings]

\* The except clause of the loop body: count the failure and record it.
Fail(msg) ==
    /\ error_count' = error_count + 1
    /\ errors' = Append(errors, ErrorEntry(image_path, msg))
    /\ attempts' = Append(attempts, Attempt(FALSE, msg))
    /\ UNCHANGED success_count

\* The for statement takes the next item of the list, or the loop ends and
\* the finished signal is emitted.
RunNext ==
    /\ pc = "next"
    /\ IF i < Len(ThreadImageList)
       THEN /\ image_path' = ThreadImageList[i + 1]
            /\ i' = i + 1
            /\ pc' = "emit"
            /\ UNCHANGED finished
       ELSE /\ finished' = Append(finished, [success_count |-> success_count,
                                             error_count |-> error_count,
                                             errors |-> errors])
            /\ pc' = "done"
            /\ UNCHANGED <<i, image_path>>
    /\ UNCHANGED <<thread, success_count, error_count, errors, progress,
                   attempts, writes, export_draw, batch_list, batch_settings,
                   replaced>>
    /\ UNCHANGED appVars

\* Variant: the loop body goes on to the decode without emitting the signal.
RunEmit_NoSignal ==
    /\ pc = "emit"
    /\ pc' = "load"
    /\ UNCHANGED <<thread, i, image_path, success_count, error_count, errors,
                   progress, finished, attempts, writes, export_draw, batch_list,
                   batch_settings, replaced>>
    /\ UNCHANGED appVars

\* progress_updated.emit(i + 1, len(self.image_list), basename(image_path)).
RunEmit ==
    /\ pc = "emit"
    /\ progress' = Append(progress, [current |-> i,
                                     total |-> Len(ThreadImageList),
                                     filename |-> basename(image_path)])
    /\ pc' = "load"
    /\ UNCHANGED <<thread, i, image_path, success_count, error_count, errors,
                   finished, attempts, writes, export_draw, batch_list,
                   batch_settings, replaced>>
    /\ UNCHANGED appVars

\* ExportThread.add_watermark_to_image: what the export compositor draws for
\* a text watermark, << >> for an image watermark.  A font file handed over
\* in 'resolved_font_path' is used when it exists, and its style flags are
\* read off its file name; when ImageFont.truetype raises on it, the except
\* clause calls get_font_for_text, as when there is no such file.
add_watermark_to_image(settings, disk) ==
    IF settings.watermark_type = "image" THEN << >>
    ELSE LET wm == settings.watermark_settings
             resolved == settings.resolved_font_path
             name == lower(basename(resolved))
             r == IF resolved # << >> /\ resolved \in disk.files
                  THEN IF resolved \notin disk.unloadable
                       THEN [font |-> FileFont(resolved),
                             has_real_bold |->
                                 \/ Contains(name, <<"b", "d">>)
                                 \/ Contains(name, <<"b", "o", "l", "d">>)]
                       ELSE get_font_for_text(wm.font_family, wm.is_bold,
                                              wm.is_italic, wm.text, disk)
                  ELSE get_font_for_text(wm.font_family, wm.is_bold,
                                         wm.is_italic, wm.text, disk)
         IN  <<TextDraw(r.font, r.has_real_bold, wm.is_bold, wm)>>

\* Image.open, image.load and add_watermark_to_image.
RunLoad ==
    /\ pc = "load"
    /\ IF image_path \in Corrupt
       THEN /\ Fail(DecodeMsg)
            /\ pc' = "next"
            /\ UNCHANGED export_draw
       ELSE /\ pc' = "save"
            /\ export_draw' = add_watermark_to_image(WorkerSettings, fonts)
            /\ UNCHANGED <<success_count, error_count, errors, attempts>>
    /\ UNCHANGED <<thread, i, image_path, progress, finished, writes,
                   batch_list, batch_settings, replaced>>
    /\ UNCHANGED appVars

\* The path the job writes to, as a normalised absolute path.
OutputPath ==
    abspath(join(thread.output_folder,
                 generate_output_filename(image_path, WorkerSettings)))

\* generate_output_filename, open(output_path, 'wb') and save.  open fails
\* when the directory does not exist; save can fail after the file has been
\* opened.
RunSave ==
    /\ pc = "save"
    /\ IF dirname(OutputPath) \notin ExistingDirs
       THEN /\ Fail(NoDirMsg)
            /\ UNCHANGED writes
       ELSE \E saved \in BOOLEAN :
            /\ writes' = Append(writes, [path |-> OutputPath, job |-> i,
                                         saved |-> saved])
            /\ IF saved
               THEN /\ success_count' = success_count + 1
                    /\ attempts' = Append(attempts, Attempt(TRUE, << >>))
                    /\ UNCHANGED <<error_count, errors>>
               ELSE Fail(EncodeMsg)
    /\ pc' = "next"
    /\ UNCHANGED <<thread, i, image_path, progress, finished, export_draw,
                   batch_list, batch_settings, replaced>>
    /\ UNCHANGED appVars

(***************************************************************************)
(* The same statements of ExportThread.run, taken by the k-th of the       *)
(* workers self.export_thread no longer refers to.                         *)
(***************************************************************************)

\* The sequence without its k-th element.
Without(seq, k) ==
    [j \in 1..(Len(seq) - 1) |-> IF j < k THEN seq[j] ELSE seq[j + 1]]

\* The except clause of the loop body for the worker w.
Failed(w, msg) ==
    [w EXCEPT !.error_count = w.error_count + 1,
              !.errors = Append(w.errors, ErrorEntry(w.image_path, msg)),
              !.pc = "next"]

\* The for statement takes the next item of the list, or the loop ends, the
\* finished signal is emitted and run returns, which ends the thread.
ReplacedRunNext(k) ==
    /\ replaced[k].pc = "next"
    /\ \E w \in {replaced[k]} :
           replaced' =
               IF w.i < Len(ThreadImageList)
               THEN [replaced EXCEPT ![k] =
                        [w EXCEPT !.image_path = ThreadImageList[w.i + 1],
                                  !.i = w.i + 1,
                                  !.pc = "emit"]]
               ELSE Without(replaced, k)
    /\ UNCHANGED threadState
    /\ UNCHANGED appVars

\* progress_updated.emit(i + 1, len(self.image_list), basename(image_path)).
ReplacedRunEmit(k) ==
    /\ replaced[k].pc = "emit"
    /\ \E w \in {replaced[k]} :
           replaced' =
               [replaced EXCEPT ![k] =
                   [w EXCEPT !.progress =
                                 Append(w.progress,
                                        [current |-> w.i,
                                         total |-> Len(ThreadImageList),
                                         filename |-> basename(w.image_path)]),
                             !.pc = "load"]]
    /\ UNCHANGED threadState
    /\ UNCHANGED appVars

\* Image.open, image.load and add_watermark_to_image.
ReplacedRunLoad(k) ==
    /\ replaced[k].pc = "load"
    /\ \E w \in {replaced[k]} :
           replaced' =
               [replaced EXCEPT ![k] =
                   IF w.image_path \in Corrupt
                   THEN Failed(w, DecodeMsg)
                   ELSE [w EXCEPT !.export_draw =
                                      add_watermark_to_image(w.settings, fonts),
                                  !.pc = "save"]]
    /\ UNCHANGED threadState
    /\ UNCHANGED appVars

\* The path the job of the worker w writes to.
OutputPathOf(w) ==
    abspath(join(w.output_folder,
                 generate_output_filename(w.image_path, w.settings)))

\* generate_output_filename, open(output_path, 'wb') and save.
ReplacedRunSave(k) ==
    /\ replaced[k].pc = "save"
    /\ \E w \in {replaced[k]} :
           IF dirname(OutputPathOf(w)) \notin ExistingDirs
           THEN replaced' = [replaced EXCEPT ![k] = Failed(w, NoDirMsg)]
           ELSE \E saved \in BOOLEAN :
                \E v \in {[w EXCEPT !.writes =
                                Append(w.writes, [path |-> OutputPathOf(w),
                                                  job |-> w.i,
                                                  saved |-> saved])]} :
                    replaced' =
                        [replaced EXCEPT ![k] =
                            IF saved
                            THEN [v EXCEPT !.success_count = v.success_count + 1,
                                           !.pc = "next"]
                            ELSE Failed(v, EncodeMsg)]
    /\ UNCHANGED threadState
    /\ UNCHANGED appVars

(***************************************************************************)
(* Specification                                                           *)
(***************************************************************************)
Next ==
    \/ \E file_path \in Paths : add_image_to_list(file_path)
    \/ clear_image_list
    \/ \E w \in WidgetNames : \E v \in WidgetValues[w] : EditWidget(w, v)
    \/ \E folder_path \in OutputFolders : select_output_folder(folder_path)
    \/ \E position \in Anchors : set_watermark_position(position)
    \/ \E color \in Colors : choose_color(color)
    \/ \E name \in TemplateNames : save_template(name)
    \/ \E name \in TemplateNames \ {ui.template_combo} : load_template(name)
    \/ delete_template
    \/ export_images
    \/ RunNext
    \/ RunEmit
    \/ RunLoad
    \/ RunSave
    \/ \E k \in 1..Len(replaced) : ReplacedRunNext(k)
    \/ \E k \in 1..Len(replaced) : ReplacedRunEmit(k)
    \/ \E k \in 1..Len(replaced) : ReplacedRunLoad(k)
    \/ \E k \in 1..Len(replaced) : ReplacedRunSave(k)

Spec == Init /\ [][Next]_vars

(***************************************************************************)
(* Output file naming on its own: one call of generate_output_filename on  *)
(* a path and settings drawn from the sets below.                          *)
(***************************************************************************)
NamePhoto == <<"/", "a", "/", "p", "h", "o", "t", "o", ".", "p", "n", "g">>
NamePaths ==
    { NamePhoto,
      <<"/", "a", "/", "p", ".", "P", "N", "G">>,
      <<"/", "a", "/", "q", ".", "j", "p", "e", "g">>,
      <<"/", "a", "/", "r", ".", "J", "P", "G">>,
      <<"/", "b", "/", "s", ".", "b", "m", "p">>,
      <<"/", "b", "/", "t", ".", "t", "i", "f", "f">>,
      <<"/", "b", "/", "u", ".", "t", "i", "f">>,
      <<"/", "b", "/", "v", ".", "g", "i", "f">>,
      <<"/", "b", "/", "w">>,
      <<"/", "b", "/", ".", "h">>,
      <<"/", "b", "/", "x", ".", "y", ".", "p", "n", "g">>,
      <<"/", "d", ".", "e", "/", "z">>,
      <<"k", ".", "b", "m", "p">> }

SuffixWm == <<"_", "w", "m">>
PrefixUp == <<".", ".", "/", "a", "/">>

NameSettings ==
    [ format : {"JPEG", "PNG"},
      naming_rule : {"original", "prefix", "suffix"},
      prefix : {<< >>, PrefixW, PrefixUp},
      suffix : {<< >>, SuffixWm} ]

InitName ==
    /\ InitApp
    /\ fn_path \in NamePaths
    /\ fn_settings \in NameSettings
    /\ fn_out = << >>
    /\ args = << >>
    /\ ret = << >>
    /\ fonts = WindowsFonts
    /\ preview_label = <<400, 300>>
    /\ op_budget = MaxLiveOps
    /\ export_budget = MaxExports

GenerateName ==
    /\ fn_out = << >>
    /\ fn_path # << >>
    /\ fn_out' = <<generate_output_filename(fn_path, fn_settings)>>
    /\ UNCHANGED <<fn_path, fn_settings>>
    /\ UNCHANGED <<callVars, envVars>>
    /\ UNCHANGED <<appState, runState>>

NextName == GenerateName

SpecName == InitName /\ [][NextName]_vars

(***************************************************************************)
(* Position mapping: _calc_pos_by_setting / _preview_to_image_coords of    *)
(* the ExportThread and get_watermark_position / preview_to_image_coords   *)
(* of the WatermarkApp.  Sizes and points are pairs <<x, y>>.              *)
(***************************************************************************)
Min(a, b) == IF a <= b THEN a ELSE b
Max(a, b) == IF a >= b THEN a ELSE b

\* The arithmetic of `scale = min(scale_x, scale_y)` and
\* `int(preview_pos[k] / scale)`.  Both divisions are divisions of doubles:
\* the scale is the quotient a / b of two integers rounded to 53 bits, and
\* p / scale is rounded again.  The operators below give the integer the
\* code computes, from integers of the model.

\* floor(log2(a / b)) for a, b > 0: the binary exponent of the double a / b.
RECURSIVE Exponent(_, _)
Exponent(a, b) ==
    IF a >= 2 * b THEN Exponent(a, 2 * b) + 1
    ELSE IF a < b THEN Exponent(2 * a, b) - 1
    ELSE 0

\* (x * 2^t) % b.
RECURSIVE ShiftMod(_, _, _)
ShiftMod(x, t, b) == IF t = 0 THEN x % b ELSE ShiftMod((2 * x) % b, t - 1, b)

\* How far the double a / b lies above the quotient, in units of
\* 2^(Exponent(a, b) - 52) / b: the 53-bit significand of the double is
\* floor(a * 2^t / b) with t = 52 - Exponent(a, b), plus one when the
\* remainder of that division is more than b / 2 (a tie cannot happen for
\* b < 2^31), so the excess is b minus the remainder.  0 when the double is
\* the quotient or lies below it.
ScaleExcess(a, b) ==
    IF 2 * ShiftMod(a, 52 - Exponent(a, b), b) > b
    THEN b - ShiftMod(a, 52 - Exponent(a, b), b)
    ELSE 0

\* n = p * b / a is an integer and the double a / b exceeds the quotient by
\* g units: p / scale is n / (1 + g / (a * 2^t)), less than n, and it is
\* rounded to the double below n iff it is nearer to that double than to n,
\* that is iff g * n * 2^d > a, with d = e + 1 - floor(log2(n)) for the
\* exponent e of the scale, and one more when n is a power of two (the
\* doubles below a power of two are twice as dense).
RoundsBelow(n, a, g, d) ==
    IF d >= 0
    THEN n > (a \div g) \div (2 ^ d)
    ELSE n > (a * (2 ^ (-d))) \div g

\* int(p / scale) for p > 0 with p * b divisible by a.
IntOfExactQuotient(n, a, b) ==
    IF /\ ScaleExcess(a, b) > 0
       /\ RoundsBelow(n, a, ScaleExcess(a, b),
                      Exponent(a, b) + 1 - Exponent(n, 1)
                          + (IF n = 2 ^ Exponent(n, 1) THEN 1 ELSE 0))
    THEN n - 1
    ELSE n

\* int(p / scale) for p >= 0 and the double scale = a / b, a, b > 0.  When
\* p * b / a is not an integer it is at least 1 / a away from one, far more
\* than the two roundings move it, and int() gives its integer part.
IntOfQuotientNat(p, a, b) ==
    IF p = 0 \/ (p * b) % a # 0
    THEN (p * b) \div a
    ELSE IntOfExactQuotient((p * b) \div a, a, b)

\* int(p / scale) for the double scale = a / b, a, b > 0: the division is
\* symmetric in the sign of p and int() truncates toward zero.
IntOfQuotient(p, a, b) ==
    IF p < 0 THEN -IntOfQuotientNat(-p, a, b) ELSE IntOfQuotientNat(p, a, b)

\* The local `margin` of both anchor mappers.
margin == 20

\* Variant: the lower clamp max(0, .) is left out.
_preview_to_image_coords_NoLowerClamp(preview_pos, image_size, overlay_size) ==
    LET img_width == image_size[1]
        img_height == image_size[2]
        preview_width == 400
        preview_height == 300
    IN  IF img_width = 0 \/ img_height = 0
        THEN <<20, 20>>
        ELSE LET by_x == preview_width * img_height <= preview_height * img_width
                 num == IF by_x THEN preview_width ELSE preview_height
                 den == IF by_x THEN img_width ELSE img_height
             IN  IF num = 0
                 THEN <<20, 20>>
                 ELSE << Min(IntOfQuotient(preview_pos[1], num, den),
                             img_width - overlay_size[1]),
                         Min(IntOfQuotient(preview_pos[2], num, den),
                             img_height - overlay_size[2]) >>

\* ExportThread._preview_to_image_coords.  scale = min(scale_x, scale_y) is
\* the double num / den of the axis with the smaller quotient (two different
\* quotients of such integers never round to the same double), and
\* int(preview_pos[k] / scale) is computed as the code computes it, on
\* doubles.  A zero image width or height
\* raises ZeroDivisionError in the scale computation, a zero scale raises it
\* in the division: both end in the except branch.
_preview_to_image_coords(preview_pos, image_size, overlay_size) ==
    LET img_width == image_size[1]
        img_height == image_size[2]
        preview_width == 400
        preview_height == 300
    IN  IF img_width = 0 \/ img_height = 0
        THEN <<20, 20>>
        ELSE LET by_x == preview_width * img_height <= preview_height * img_width
                 num == IF by_x THEN preview_width ELSE preview_height
                 den == IF by_x THEN img_width ELSE img_height
             IN  IF num = 0
                 THEN <<20, 20>>
                 ELSE << Max(0, Min(IntOfQuotient(preview_pos[1], num, den),
                                    img_width - overlay_size[1])),
                         Max(0, Min(IntOfQuotient(preview_pos[2], num, den),
                                    img_height - overlay_size[2])) >>

\* Variant: the offset of a centred overlay is computed from the halves.
_calc_pos_by_setting_Halves(settings, image_size, overlay_size) ==
    LET custom_pos == settings.watermark_settings.custom_position
        img_w == image_size[1]
        img_h == image_size[2]
        w == overlay_size[1]
        h == overlay_size[2]
        pos_key == settings.watermark_settings.position
    IN  IF custom_pos # << >>
        THEN _preview_to_image_coords(custom_pos, image_size, overlay_size)
        ELSE IF pos_key = "top_left" THEN <<margin, margin>>
        ELSE IF pos_key = "top_center" THEN <<(img_w \div 2) - (w \div 2), margin>>
        ELSE IF pos_key = "top_right" THEN <<img_w - w - margin, margin>>
        ELSE IF pos_key = "middle_left" THEN <<margin, (img_h \div 2) - (h \div 2)>>
        ELSE IF pos_key = "center"
             THEN <<(img_w \div 2) - (w \div 2), (img_h \div 2) - (h \div 2)>>
        ELSE IF pos_key = "middle_right"
             THEN <<img_w - w - margin, (img_h \div 2) - (h \div 2)>>
        ELSE IF pos_key = "bottom_left" THEN <<margin, img_h - h - margin>>
        ELSE IF pos_key = "bottom_center"
             THEN <<(img_w \div 2) - (w \div 2), img_h - h - margin>>
        ELSE <<img_w - w - margin, img_h - h - margin>>

\* ExportThread._calc_pos_by_setting, on settings whose 'watermark_settings'
\* entry is the dict itself.  `if custom_pos:` is true for every point (a
\* non-empty tuple) and false for None.
_calc_pos_by_setting(settings, image_size, overlay_size) ==
    LET custom_pos == settings.watermark_settings.custom_position
        img_w == image_size[1]
        img_h == image_size[2]
        w == overlay_size[1]
        h == overlay_size[2]
        pos_key == settings.watermark_settings.position
    IN  IF custom_pos # << >>
        THEN _preview_to_image_coords(custom_pos, image_size, overlay_size)
        ELSE IF pos_key = "top_left" THEN <<margin, margin>>
        ELSE IF pos_key = "top_center" THEN <<(img_w - w) \div 2, margin>>
        ELSE IF pos_key = "top_right" THEN <<img_w - w - margin, margin>>
        ELSE IF pos_key = "middle_left" THEN <<margin, (img_h - h) \div 2>>
        ELSE IF pos_key = "center" THEN <<(img_w - w) \div 2, (img_h - h) \div 2>>
        ELSE IF pos_key = "middle_right"
             THEN <<img_w - w - margin, (img_h - h) \div 2>>
        ELSE IF pos_key = "bottom_left" THEN <<margin, img_h - h - margin>>
        ELSE IF pos_key = "bottom_center"
             THEN <<(img_w - w) \div 2, img_h - h - margin>>
        ELSE <<img_w - w - margin, img_h - h - margin>>

\* WatermarkApp.preview_to_image_coords; label is the current
\* <<width(), height()>> of the preview widget.
preview_to_image_coords(preview_pos, image_size, watermark_size, label) ==
    LET img_width == image_size[1]
        img_height == image_size[2]
        preview_width == label[1]
        preview_height == label[2]
    IN  IF img_width = 0 \/ img_height = 0
        THEN <<20, 20>>
        ELSE LET by_x == preview_width * img_height <= preview_height * img_width
                 num == IF by_x THEN preview_width ELSE preview_height
                 den == IF by_x THEN img_width ELSE img_height
             IN  IF num = 0
                 THEN <<20, 20>>
                 ELSE << Max(0, Min(IntOfQuotient(preview_pos[1], num, den),
                                    img_width - watermark_size[1])),
                         Max(0, Min(IntOfQuotient(preview_pos[2], num, den),
                                    img_height - watermark_size[2])) >>

\* Variant: top_right forgets the width of the overlay.
get_watermark_position_NoWidth(watermark_settings, label, image_size, watermark_size) ==
    LET custom_pos == watermark_settings.custom_position
        img_width == image_size[1]
        img_height == image_size[2]
        wm_width == watermark_size[1]
        wm_height == watermark_size[2]
        position == watermark_settings.position
    IN  IF custom_pos # << >>
        THEN preview_to_image_coords(custom_pos, image_size, watermark_size,
                                     label)
        ELSE IF position = "top_left" THEN <<margin, margin>>
        ELSE IF position = "top_center" THEN <<(img_width - wm_width) \div 2, margin>>
        ELSE IF position = "top_right" THEN <<img_width - margin, margin>>
        ELSE IF position = "middle_left"
             THEN <<margin, (img_height - wm_height) \div 2>>
        ELSE IF position = "center"
             THEN <<(img_width - wm_width) \div 2, (img_height - wm_height) \div 2>>
        ELSE IF position = "middle_right"
             THEN <<img_width - wm_width - margin, (img_height - wm_height) \div 2>>
        ELSE IF position = "bottom_left"
             THEN <<margin, img_height - wm_height - margin>>
        ELSE IF position = "bottom_center"
             THEN <<(img_width - wm_width) \div 2, img_height - wm_height - margin>>
        ELSE IF position = "bottom_right"
             THEN <<img_width - wm_width - margin, img_height - wm_height - margin>>
        ELSE <<margin, margin>>

\* WatermarkApp.get_watermark_position.
get_watermark_position(watermark_settings, label, image_size, watermark_size) ==
    LET custom_pos == watermark_settings.custom_position
        img_width == image_size[1]
        img_height == image_size[2]
        wm_width == watermark_size[1]
        wm_height == watermark_size[2]
        position == watermark_settings.position
    IN  IF custom_pos # << >>
        THEN preview_to_image_coords(custom_pos, image_size, watermark_size,
                                     label)
        ELSE IF position = "top_left" THEN <<margin, margin>>
        ELSE IF position = "top_center" THEN <<(img_width - wm_width) \div 2, margin>>
        ELSE IF position = "top_right" THEN <<img_width - wm_width - margin, margin>>
        ELSE IF position = "middle_left"
             THEN <<margin, (img_height - wm_height) \div 2>>
        ELSE IF position = "center"
             THEN <<(img_width - wm_width) \div 2, (img_height - wm_height) \div 2>>
        ELSE IF position = "middle_right"
             THEN <<img_width - wm_width - margin, (img_height - wm_height) \div 2>>
        ELSE IF position = "bottom_left"
             THEN <<margin, img_height - wm_height - margin>>
        ELSE IF position = "bottom_center"
             THEN <<(img_width - wm_width) \div 2, img_height - wm_height - margin>>
        ELSE IF position = "bottom_right"
             THEN <<img_width - wm_width - margin, img_height - wm_height - margin>>
        ELSE <<margin, margin>>

\* The nine anchors of the position buttons, in the order of on_preview_click.
positions ==
    << "top_left", "top_center", "top_right",
       "middle_left", "center", "middle_right",
       "bottom_left", "bottom_center", "bottom_right" >>

\* Inputs of the mappers: the nine anchors and a key that is none of them,
\* no custom position or a dragged point (inside, outside, negative), image
\* and overlay sizes (overlay smaller than, nearly as large as and larger
\* than the image; zero-sized images), and sizes of the preview widget.
PosKeys == {positions[k] : k \in 1..Len(positions)} \cup {"diagonal"}
PosPoints ==
    { << >>, <<100, 100>>, <<-5, -7>>, <<0, 0>>, <<1000, 1000>>, <<399, 299>>,
      <<137, 137>>, <<160, 40>> }
PosImageSizes ==
    { <<800, 600>>, <<1600, 1200>>, <<140, 70>>, <<50, 45>>, <<0, 600>>, <<800, 0>>,
      <<300, 300>>, <<1160, 800>> }
PosOverlaySizes == { <<100, 30>>, <<50, 50>>, <<45, 10>>, <<1, 1>> }
PosPreviewSizes ==
    { <<400, 300>>, <<800, 600>>, <<640, 300>>, <<0, 300>>, <<400, 0>>, <<523, 411>> }

PosArgs ==
    [ watermark_settings : [position : PosKeys, custom_position : PosPoints],
      image_size : PosImageSizes,
      overlay_size : PosOverlaySizes,
      preview_label : PosPreviewSizes ]

InitPos ==
    /\ InitApp
    /\ fn_path = << >>
    /\ fn_settings = [format |-> "JPEG", naming_rule |-> "original",
                      prefix |-> << >>, suffix |-> << >>]
    /\ fn_out = << >>
    /\ args \in PosArgs
    /\ ret = [export |-> << >>, preview |-> << >>]
    /\ fonts = WindowsFonts
    /\ preview_label = <<400, 300>>
    /\ op_budget = MaxLiveOps
    /\ export_budget = MaxExports

\* One call of the export mapper on the arguments.
CalcPosBySetting ==
    /\ ret.export = << >>
    /\ ret' = [ret EXCEPT !.export =
                  << _calc_pos_by_setting(
                         [watermark_settings |-> args.watermark_settings],
                         args.image_size, args.overlay_size) >>]
    /\ UNCHANGED <<args, fn_path, fn_settings, fn_out, envVars>>
    /\ UNCHANGED <<appState, runState>>

\* One call of the preview mapper on the arguments.
GetWatermarkPosition ==
    /\ ret.preview = << >>
    /\ ret' = [ret EXCEPT !.preview =
                  << get_watermark_position(
                         args.watermark_settings, args.preview_label,
                         args.image_size, args.overlay_size) >>]
    /\ UNCHANGED <<args, fn_path, fn_settings, fn_out, envVars>>
    /\ UNCHANGED <<appState, runState>>

NextPos == CalcPosBySetting \/ GetWatermarkPosition

SpecPos == InitPos /\ [][NextPos]_vars

(***************************************************************************)
(* Font resolution on its own: one call of each resolver on a family, style *)
(* flags and text drawn from the sets below, on each of the machines.       *)
(***************************************************************************)
TextMixed == <<72, 27700>>
TextExtA == <<13312>>
TextExtB == <<131072>>
ResolveFamilies ==
    {"Microsoft YaHei", "SimSun", "SimHei", "Arial", "Times New Roman",
     "Consolas", "DejaVuSans"}
ResolveArgs ==
    [ family : ResolveFamilies,
      is_bold : BOOLEAN,
      is_italic : BOOLEAN,
      text : {TextDefault, TextHi, TextMixed, TextExtA, TextExtB, << >>} ]
Machines == {WindowsFonts, NoArialFonts, NoFonts, DamagedFonts}

InitResolve ==
    /\ InitApp
    /\ fn_path = << >>
    /\ fn_settings = [format |-> "JPEG", naming_rule |-> "original",
                      prefix |-> << >>, suffix |-> << >>]
    /\ fn_out = << >>
    /\ args \in ResolveArgs
    /\ ret = [export |-> << >>, preview |-> << >>]
    /\ fonts \in Machines
    /\ preview_label = <<400, 300>>
    /\ op_budget = MaxLiveOps
    /\ export_budget = MaxExports

\* One call of the export's resolver on the arguments.
GetFontForText ==
    /\ ret.export = << >>
    /\ ret' = [ret EXCEPT !.export =
                  << get_font_for_text(args.family, args.is_bold, args.is_italic,
                                       args.text, fonts) >>]
    /\ UNCHANGED <<args, fn_path, fn_settings, fn_out, envVars>>
    /\ UNCHANGED <<appState, runState>>

\* One call of the preview's resolver on the arguments: the call returns
\* its values and leaves the file found in self.watermark_settings.
GetPilFont ==
    /\ ret.preview = << >>
    /\ \E r \in {get_pil_font(dicts.app, args.family, args.is_bold,
                              args.is_italic, args.text, fonts)} :
           /\ ret' = [ret EXCEPT !.preview = << r >>]
           /\ dicts' = [dicts EXCEPT !.app = r.watermark_settings]
    /\ UNCHANGED <<args, fn_path, fn_settings, fn_out, envVars>>
    /\ UNCHANGED <<image_list, ui, templates, live_ops, export_calls, last_call,
                   current_image, preview_draw, dragVars, last_placement>>
    /\ UNCHANGED runState

NextResolve == GetFontForText \/ GetPilFont

SpecResolve == InitResolve /\ [][NextResolve]_vars

(***************************************************************************)
(* The fonts of preview and export: the application with an image selected *)
(* for preview, the font widgets, the templates and the export worker, on  *)
(* each of the machines.                                                   *)
(***************************************************************************)
FontWidgetValues ==
    [ font_family |-> {"Microsoft YaHei", "SimSun", "Arial", "Times New Roman"},
      is_bold |-> BOOLEAN,
      is_italic |-> BOOLEAN,
      text |-> {TextDefault, TextHi} ]

InitFont ==
    /\ InitApp
    /\ NoCall
    /\ fonts \in Machines
    /\ preview_label = <<400, 300>>
    /\ op_budget = MaxFontOps
    /\ export_budget = MaxFontExports

NextFont ==
    \/ add_image_to_list(PathO1)
    \/ clear_image_list
    \/ on_image_selected(PathO1)
    \/ \E w \in DOMAIN FontWidgetValues : \E v \in FontWidgetValues[w] :
           EditWidget(w, v)
    \/ select_output_folder(FolderB)
    \/ \E name \in TemplateNames : save_template(name)
    \/ \E name \in TemplateNames \ {ui.template_combo} : load_template(name)
    \/ delete_template
    \/ export_images
    \/ RunNext
    \/ RunEmit
    \/ RunLoad
    \/ RunSave

SpecFont == InitFont /\ [][NextFont]_vars

(***************************************************************************)
(* The placement of the watermark: the application with an image selected *)
(* for preview, the position buttons, the mouse on the preview, the        *)
(* templates and the export worker.                                        *)
(***************************************************************************)
\* Where the mouse is pressed and where it is moved to, in the preview.
ClickPoints == { <<300, 260>>, <<30, 30>> }
DragPoints == { <<310, 250>>, <<200, 100>> }

InitPlace ==
    /\ InitApp
    /\ NoCall
    /\ fonts = WindowsFonts
    /\ preview_label \in { <<400, 300>>, <<800, 600>> }
    /\ op_budget = MaxPlaceOps
    /\ export_budget = MaxPlaceExports

NextPlace ==
    \/ add_image_to_list(PathA1)
    \/ clear_image_list
    \/ on_image_selected(PathA1)
    \/ \E position \in Anchors : set_watermark_position(position)
    \/ \E pos \in ClickPoints : on_preview_click(pos)
    \/ \E pos \in DragPoints : on_preview_drag(pos)
    \/ on_preview_release
    \/ \E name \in TemplateNames : save_template(name)
    \/ \E name \in TemplateNames \ {ui.template_combo} : load_template(name)
    \/ delete_template
    \/ select_output_folder(FolderB)
    \/ export_images
    \/ RunNext
    \/ RunEmit
    \/ RunLoad
    \/ RunSave

SpecPlace == InitPlace /\ [][NextPlace]_vars

(***************************************************************************)
(* Opacity: the colour of the text draw and the pixels of an image         *)
(* watermark, as each compositor computes them.  A pixel is <<R, G, B, A>> *)
(* with channels in 0..255.  The channel values used below are ones whose  *)
(* floating-point product with opacity / 100.0 truncates to the exact      *)
(* quotient for every opacity.                                             *)
(***************************************************************************)
\* WatermarkApp.get_text_color: the colour of the preview's text draw.
get_text_color(base_color, opacity) ==
    <<base_color[1], base_color[2], base_color[3], (255 * opacity) \div 100>>

\* The colour of the export's text draw.
ExportTextColor(wm) ==
    <<wm.font_color[1], wm.font_color[2], wm.font_color[3],
      (255 * wm.opacity) \div 100>>

\* shadow_color of both compositors, << >> without a shadow.
shadow_color(has_shadow, color) ==
    IF has_shadow THEN <<0, 0, 0, color[4] \div 2>> ELSE << >>

\* point(lambda p: int(p * op)) on one channel value, op = opacity / 100.0.
PointScale(p, opacity) == (p * opacity) \div 100

\* The image watermark the export pastes: the alpha channel is scaled when
\* the opacity is below 100.
ExportOverlay(pixel, image_watermark_opacity) ==
    LET op == Max(0, Min(100, image_watermark_opacity))
    IN  IF op < 100
        THEN <<pixel[1], pixel[2], pixel[3], PointScale(pixel[4], op)>>
        ELSE pixel

\* ImageEnhance.Brightness(image).enhance(factor) on an RGBA pixel: a blend
\* with black that keeps the alpha channel.
BrightnessEnhance(pixel, opacity) ==
    <<(pixel[1] * opacity) \div 100, (pixel[2] * opacity) \div 100,
      (pixel[3] * opacity) \div 100, pixel[4]>>

\* The image watermark the preview pastes (WatermarkApp.add_image_watermark).
PreviewOverlay(pixel, opacity) ==
    IF opacity < 100
    THEN LET wm_image == BrightnessEnhance(pixel, opacity)
         IN  <<wm_image[1], wm_image[2], wm_image[3],
               PointScale(wm_image[4], opacity)>>
    ELSE pixel

\* Pixels of the watermark image: opaque red, a half-transparent blue,
\* transparent white, opaque black.
WatermarkPixels ==
    { <<255, 0, 0, 255>>, <<40, 120, 240, 128>>, <<255, 255, 255, 0>>,
      <<0, 0, 0, 255>> }
OpacityArgs ==
    [ opacity : 0..100,
      font_color : Colors,
      has_shadow : BOOLEAN,
      pixel : WatermarkPixels ]

InitOpacity ==
    /\ InitApp
    /\ fn_path = << >>
    /\ fn_settings = [format |-> "JPEG", naming_rule |-> "original",
                      prefix |-> << >>, suffix |-> << >>]
    /\ fn_out = << >>
    /\ args \in OpacityArgs
    /\ ret = [export_text |-> << >>, preview_text |-> << >>,
              export_image |-> << >>, preview_image |-> << >>]
    /\ fonts = WindowsFonts
    /\ preview_label = <<400, 300>>
    /\ op_budget = MaxLiveOps
    /\ export_budget = MaxExports

\* The export compositor computes the colours of a text watermark.
ExportText ==
    /\ ret.export_text = << >>
    /\ LET color == ExportTextColor([font_color |-> args.font_color,
                                     opacity |-> args.opacity])
       IN  ret' = [ret EXCEPT !.export_text =
                      << [color |-> color,
                          shadow_color |-> shadow_color(args.has_shadow, color)] >>]
    /\ UNCHANGED <<args, fn_path, fn_settings, fn_out, envVars>>
    /\ UNCHANGED <<appState, runState>>

\* The preview compositor computes the colours of a text watermark.
PreviewText ==
    /\ ret.preview_text = << >>
    /\ LET color == get_text_color(args.font_color, args.opacity)
       IN  ret' = [ret EXCEPT !.preview_text =
                      << [color |-> color,
                          shadow_color |-> shadow_color(args.has_shadow, color)] >>]
    /\ UNCHANGED <<args, fn_path, fn_settings, fn_out, envVars>>
    /\ UNCHANGED <<appState, runState>>

\* The export compositor prepares the image watermark.
ExportImage ==
    /\ ret.export_image = << >>
    /\ ret' = [ret EXCEPT !.export_image =
                  << ExportOverlay(args.pixel, args.opacity) >>]
    /\ UNCHANGED <<args, fn_path, fn_settings, fn_out, envVars>>
    /\ UNCHANGED <<appState, runState>>

\* The preview compositor prepares the image watermark.
PreviewImage ==
    /\ ret.preview_image = << >>
    /\ ret' = [ret EXCEPT !.preview_image =
                  << PreviewOverlay(args.pixel, args.opacity) >>]
    /\ UNCHANGED <<args, fn_path, fn_settings, fn_out, envVars>>
    /\ UNCHANGED <<appState, runState>>

NextOpacity == ExportText \/ PreviewText \/ ExportImage \/ PreviewImage

SpecOpacity == InitOpacity /\ [][NextOpacity]_vars

(***************************************************************************)
(* Batches of files whose output names can coincide: two sources with the  *)
(* same base name in different folders, one of them with an extension that *)
(* is remapped.                                                            *)
(***************************************************************************)
PathO2 == <<"/", "o", "/", "p", ".", "b", "m", "p">>
SameNamePaths == {PathA1, PathO2}

NextSameName ==
    \/ \E file_path \in SameNamePaths : add_image_to_list(file_path)
    \/ clear_image_list
    \/ \E v \in WidgetValues["format"] : EditWidget("format", v)
    \/ select_output_folder(FolderB)
    \/ export_images
    \/ RunNext
    \/ RunEmit
    \/ RunLoad
    \/ RunSave
    \/ \E k \in 1..Len(replaced) : ReplacedRunNext(k)
    \/ \E k \in 1..Len(replaced) : ReplacedRunEmit(k)
    \/ \E k \in 1..Len(replaced) : ReplacedRunLoad(k)
    \/ \E k \in 1..Len(replaced) : ReplacedRunSave(k)

SpecSameName == Init /\ [][NextSameName]_vars

(***************************************************************************)
(* Properties                                                              *)
(***************************************************************************)

\* Vocabulary of the properties, stated without the operators of the model.
Range(s) == {s[k] : k \in 1..Len(s)}
EndsWith(s, t) == Len(t) <= Len(s) /\ SubSeq(s, Len(s) - Len(t) + 1, Len(s)) = t
\* The file name of a path: its last "/"-free component.
FileName(path) ==
    CHOOSE n \in {SubSeq(path, k, Len(path)) : k \in 1..(Len(path) + 1)} :
        /\ "/" \notin Range(n)
        /\ Len(n) = Len(path) \/ path[Len(path) - Len(n)] = "/"
\* Where the extension of a file name starts: at its last dot, when something
\* other than dots precedes that dot; past the end when it has no extension.
ExtStart(name) ==
    LET dots == {k \in 1..Len(name) :
                    /\ name[k] = "."
                    /\ \A j \in (k + 1)..Len(name) : name[j] # "."
                    /\ \E j \in 1..(k - 1) : name[j] # "."}
    IN  IF dots = {} THEN Len(name) + 1 ELSE CHOOSE k \in dots : TRUE
NameBase(name) == SubSeq(name, 1, ExtStart(name) - 1)
NameExt(name) == SubSeq(name, ExtStart(name), Len(name))
\* The extension after format mapping, as the code maps it.
MappedExt(format, source_ext) ==
    IF format = "PNG" THEN DotPng
    ELSE IF lower(source_ext) \in {DotPng, DotBmp, DotTiff, DotTif} THEN DotJpg
    ELSE lower(source_ext)
IsFailed(a) == ~a.ok
Running == pc \in {"next", "emit", "load", "save"}
\* The source files of the current batch: those it was started with and
\* those the worker has processed.
BatchSources == Range(batch_list) \cup {attempts[k].path : k \in 1..Len(attempts)}

\* C1: when run finishes a batch, success_count + error_count equals the
\* number of input files the batch was started with.
C1_CountsMatchInputs ==
    \A k \in 1..Len(finished) :
        finished[k].success_count + finished[k].error_count = Len(batch_list)

\* C2: a call of export_images whose output folder is the containing
\* directory of an input path ends with the validation warning and starts no
\* worker, and no write of a batch targets a directory that contains a source
\* file of that batch.
C2_NeverWritesIntoSourceDir ==
    /\ \A c \in 1..Len(last_call) :
           last_call[c].in_source_folder => last_call[c].outcome = "source_folder"
    /\ \A w \in 1..Len(writes) : \A p \in BatchSources :
           dirname(writes[w].path) # dirname(abspath(p))

\* C3: a failed job counts as one error and every later job of the batch is
\* still attempted; the batch of three files whose second is corrupt ends
\* with two successes, one error and files 1 and 3 written.
C3_FailureIsolation ==
    pc = "done" =>
        /\ \A k \in 1..Len(attempts) :
               ~attempts[k].ok =>
                   \A j \in (attempts[k].index + 1)..Len(batch_list) :
                       \E m \in 1..Len(attempts) :
                           /\ attempts[m].index = j
                           /\ attempts[m].path = batch_list[j]
        /\ error_count = Len(SelectSeq(attempts, IsFailed))
        /\ (/\ batch_list = <<PathA1, PathA2, PathO1>>
            /\ thread.output_folder = FolderB
            /\ \A w \in 1..Len(writes) : writes[w].saved)
           => /\ success_count = 2
              /\ error_count = 1
              /\ {writes[w].job : w \in 1..Len(writes)} = {1, 3}

\* C4: the values the worker uses for every job of a batch are those of the
\* export settings at the start of the batch, whatever is changed in the
\* interactive layer afterwards.
C4_SnapshotIsolation ==
    /\ \A k \in 1..Len(attempts) : attempts[k].used = batch_settings
    /\ Running => WorkerSettings = batch_settings

\* The interactive layer's settings have been changed since the batch started,
\* one job is done with the snapshot's values, the next one is being saved
\* and another one is still to come.
C4_Witness ==
    /\ pc = "save"
    /\ Len(attempts) >= 1
    /\ i < Len(ThreadImageList)
    /\ LiveSettings # batch_settings
    /\ WorkerSettings = batch_settings

\* C5: the worker reads nothing of the interactive layer but the settings
\* snapshot: the jobs processed and the totals reported are those of the
\* image list the batch was started with.
C5_ImageListNotShared ==
    pc = "done" =>
        /\ [k \in 1..Len(attempts) |-> attempts[k].path] = batch_list
        /\ \A k \in 1..Len(progress) : progress[k].total = Len(batch_list)

\* C6: errors has exactly error_count entries, one per failed job and none
\* for a successful one, in list order, each "<basename>: <message>".
C6_ErrorsList ==
    LET failed == SelectSeq(attempts, IsFailed)
    IN  /\ Len(errors) = error_count
        /\ Len(failed) = error_count
        /\ success_count = Len(attempts) - Len(failed)
        /\ \A k \in 1..Len(errors) :
               /\ k <= Len(failed)
               /\ errors[k] = FileName(failed[k].path) \o <<":", " ">> \o failed[k].msg
        /\ \A k \in 1..(Len(failed) - 1) : failed[k].index < failed[k + 1].index
        /\ \A k \in 1..Len(finished) :
               /\ finished[k].errors = errors
               /\ finished[k].error_count = error_count

\* A finished batch with two failed jobs and a successful one.
C6_Witness ==
    /\ pc = "done"
    /\ error_count = 2
    /\ success_count = 1
    /\ Len(errors) = 2

\* C7: one progress notification per job attempt; the k-th carries k, the
\* size n of the batch and the basename of the k-th input path.
C7_ProgressPerJob ==
    pc = "done" =>
        /\ Len(progress) = Len(attempts)
        /\ Len(progress) = Len(batch_list)
        /\ \A k \in 1..Len(progress) :
               /\ k <= Len(batch_list)
               /\ progress[k] = [current |-> k, total |-> Len(batch_list),
                                 filename |-> FileName(batch_list[k])]

\* C8 as stated: the notification for job k is emitted after the attempt on
\* job k has completed.
C8_EmittedAfterAttempt == Len(progress) <= Len(attempts)

\* C8 amended: the notification for job k is emitted before the attempt on
\* job k starts and after the attempt on job k-1 has completed.
C8_EmittedBeforeAttempt ==
    /\ Len(attempts) = IF pc \in {"emit", "load", "save"} THEN i - 1 ELSE i
    /\ Len(progress) = IF pc = "emit" THEN i - 1 ELSE i
    /\ \A k \in 1..Len(progress) : progress[k].current = k

\* The second job is being decoded: its notification is out, its attempt is not done.
C8_Witness ==
    /\ pc = "load"
    /\ Len(progress) = 2
    /\ Len(attempts) = 1

\* C9: original gives base+ext, prefix gives prefix+base+ext, suffix gives
\* base+suffix+ext, with base the input file name without extension and ext
\* the extension after format mapping; photo.png with suffix _wm as JPEG
\* gives photo_wm.jpg.
C9_NamingRule ==
    fn_out # << >> =>
        LET name == FileName(fn_path)
            base == NameBase(name)
            ext == MappedExt(fn_settings.format, NameExt(name))
        IN  /\ fn_settings.naming_rule = "original" => fn_out[1] = base \o ext
            /\ fn_settings.naming_rule = "prefix"
                   => fn_out[1] = fn_settings.prefix \o base \o ext
            /\ fn_settings.naming_rule = "suffix"
                   => fn_out[1] = base \o fn_settings.suffix \o ext
            /\ (/\ fn_path = NamePhoto
                /\ fn_settings.naming_rule = "suffix"
                /\ fn_settings.suffix = SuffixWm
                /\ fn_settings.format = "JPEG")
               => fn_out = << <<"p", "h", "o", "t", "o", "_", "w", "m", ".", "j", "p", "g">> >>

\* photo.png was named with suffix _wm for a JPEG export.
C9_Witness ==
    /\ fn_path = NamePhoto
    /\ fn_settings.naming_rule = "suffix"
    /\ fn_settings.suffix = SuffixWm
    /\ fn_settings.format = "JPEG"
    /\ fn_out = << <<"p", "h", "o", "t", "o", "_", "w", "m", ".", "j", "p", "g">> >>

\* C10 as stated: whatever the source extension, the output name ends in
\* .jpg for JPEG and in .png for PNG.
C10_ExtensionForced ==
    fn_out # << >> =>
        /\ fn_settings.format = "JPEG" => EndsWith(fn_out[1], DotJpg)
        /\ fn_settings.format = "PNG" => EndsWith(fn_out[1], DotPng)

\* C10 amended: PNG gives .png; JPEG gives .jpg when the lower-cased source
\* extension is .png, .bmp, .tiff or .tif, and the lower-cased source
\* extension itself otherwise.
C10_ExtensionMapping ==
    fn_out # << >> =>
        LET source_ext == NameExt(FileName(fn_path))
            stem == IF fn_settings.naming_rule = "suffix"
                    THEN NameBase(FileName(fn_path)) \o fn_settings.suffix
                    ELSE IF fn_settings.naming_rule = "prefix"
                    THEN fn_settings.prefix \o NameBase(FileName(fn_path))
                    ELSE NameBase(FileName(fn_path))
            out_ext == SubSeq(fn_out[1], Len(stem) + 1, Len(fn_out[1]))
        IN  /\ fn_settings.format = "PNG" => out_ext = DotPng
            /\ (fn_settings.format = "JPEG"
                /\ lower(source_ext) \in {DotPng, DotBmp, DotTiff, DotTif})
               => out_ext = DotJpg
            /\ (fn_settings.format = "JPEG"
                /\ lower(source_ext) \notin {DotPng, DotBmp, DotTiff, DotTif})
               => out_ext = lower(source_ext)

\* A .jpeg source exported as JPEG kept the extension .jpeg.
C10_Witness ==
    /\ fn_out # << >>
    /\ fn_settings.format = "JPEG"
    /\ NameExt(FileName(fn_path)) = DotJpeg
    /\ EndsWith(fn_out[1], DotJpeg)

(***************************************************************************)
(* Properties of the position mappers                                      *)
(***************************************************************************)
\* The arguments of the call, and the results of the mappers that have run.
PosW == args.image_size[1]
PosH == args.image_size[2]
Posw == args.overlay_size[1]
Posh == args.overlay_size[2]
NamedAnchor == args.watermark_settings.position \in Range(positions)
NoCustom == args.watermark_settings.custom_position = << >>
PosResults == {r[1] : r \in {ret.export, ret.preview} \ {<< >>}}
\* q is n/2 rounded down.
IsHalf(q, n) == 2 * q <= n /\ n < 2 * q + 2
\* pt is the position section 4.2 gives for the anchor.
IsClosedForm(anchor, pt) ==
    /\ anchor \in {"top_left", "middle_left", "bottom_left"} => pt[1] = 20
    /\ anchor \in {"top_center", "center", "bottom_center"}
           => IsHalf(pt[1], PosW - Posw)
    /\ anchor \in {"top_right", "middle_right", "bottom_right"}
           => pt[1] = PosW - Posw - 20
    /\ anchor \in {"top_left", "top_center", "top_right"} => pt[2] = 20
    /\ anchor \in {"middle_left", "center", "middle_right"}
           => IsHalf(pt[2], PosH - Posh)
    /\ anchor \in {"bottom_left", "bottom_center", "bottom_right"}
           => pt[2] = PosH - Posh - 20

\* C11 as stated: for the nine anchors and every overlay smaller than the
\* container, the anchor position lies in [20, W-w-20] x [20, H-h-20].
C11_AnchorWithinMargins ==
    (NamedAnchor /\ NoCustom /\ Posw < PosW /\ Posh < PosH) =>
        \A pt \in PosResults :
            /\ 20 <= pt[1] /\ pt[1] <= PosW - Posw - 20
            /\ 20 <= pt[2] /\ pt[2] <= PosH - Posh - 20

\* C11 amended: the anchor position lies in [20, W-w-20] x [20, H-h-20] when
\* the overlay leaves room for both margins, W-w >= 40 and H-h >= 40.
C11_AnchorWithinMarginsIfRoom ==
    (NamedAnchor /\ NoCustom /\ PosW - Posw >= 40 /\ PosH - Posh >= 40) =>
        \A pt \in PosResults :
            /\ 20 <= pt[1] /\ pt[1] <= PosW - Posw - 20
            /\ 20 <= pt[2] /\ pt[2] <= PosH - Posh - 20

\* Both mappers have placed a 100x30 overlay at the centre of a 140x70
\* image, where the two margins leave exactly one position.
C11_Witness ==
    /\ args.watermark_settings = [position |-> "center", custom_position |-> << >>]
    /\ args.image_size = <<140, 70>>
    /\ args.overlay_size = <<100, 30>>
    /\ ret.export = << <<20, 20>> >>
    /\ ret.preview = << <<20, 20>> >>

\* C12: with no custom position, for each of the nine anchors both mappers
\* return the closed-form position of section 4.2 with margin 20 (halves
\* rounded down), so they agree; bottom_right on 800x600 with a 100x30
\* overlay is (680, 550).
C12_ClosedForm ==
    (NamedAnchor /\ NoCustom) =>
        /\ \A pt \in PosResults : IsClosedForm(args.watermark_settings.position, pt)
        /\ (ret.export # << >> /\ ret.preview # << >>) => ret.export = ret.preview
        /\ (/\ args.watermark_settings.position = "bottom_right"
            /\ args.image_size = <<800, 600>>
            /\ args.overlay_size = <<100, 30>>)
           => PosResults \subseteq {<<680, 550>>}

\* Both mappers have placed a 100x30 overlay at bottom_right of an 800x600 image.
C12_Witness ==
    /\ args.watermark_settings = [position |-> "bottom_right",
                                  custom_position |-> << >>]
    /\ args.image_size = <<800, 600>>
    /\ args.overlay_size = <<100, 30>>
    /\ ret.export = << <<680, 550>> >>
    /\ ret.preview = << <<680, 550>> >>

\* C13 as stated: for any preview point and any image and overlay sizes the
\* converted point satisfies 0 <= x <= image_w - overlay_w and
\* 0 <= y <= image_h - overlay_h.
C13_ConvertedPointInsideImage ==
    ~NoCustom =>
        \A pt \in PosResults :
            /\ 0 <= pt[1] /\ pt[1] <= PosW - Posw
            /\ 0 <= pt[2] /\ pt[2] <= PosH - Posh

\* C13 amended: on an image of non-zero size, converted under a viewport of
\* non-zero size, 0 <= x <= max(0, image_w - overlay_w) and
\* 0 <= y <= max(0, image_h - overlay_h): the overlay stays inside the image
\* when it fits, and is put at 0 on an axis where it does not.
C13_ConvertedPointClamped ==
    (~NoCustom /\ PosW # 0 /\ PosH # 0) =>
        /\ ret.export # << >> =>
               /\ 0 <= ret.export[1][1]
               /\ ret.export[1][1] <= Max(0, PosW - Posw)
               /\ 0 <= ret.export[1][2]
               /\ ret.export[1][2] <= Max(0, PosH - Posh)
        /\ (/\ ret.preview # << >>
            /\ args.preview_label[1] # 0
            /\ args.preview_label[2] # 0) =>
               /\ 0 <= ret.preview[1][1]
               /\ ret.preview[1][1] <= Max(0, PosW - Posw)
               /\ 0 <= ret.preview[1][2]
               /\ ret.preview[1][2] <= Max(0, PosH - Posh)

\* The point (1000, 1000), far outside the viewport, has been converted for
\* an 800x600 image and a 100x30 overlay: it is clamped to (700, 570).
C13_Witness ==
    /\ args.watermark_settings.custom_position = <<1000, 1000>>
    /\ args.image_size = <<800, 600>>
    /\ args.overlay_size = <<100, 30>>
    /\ ret.export = << <<700, 570>> >>

\* p / scale >= k for k >= 0, with scale = min(vw / W, vh / H).
ScaledAtLeast(p, k, viewport) ==
    p * PosW >= k * viewport[1] \/ p * PosH >= k * viewport[2]
\* x is p / scale, truncated, then clamped to [0, limit].
IsScaledCoord(x, p, limit, viewport) ==
    IF limit < 0 \/ ~ScaledAtLeast(p, 1, viewport) THEN x = 0
    ELSE IF ScaledAtLeast(p, limit, viewport) THEN x = limit
    ELSE /\ ScaledAtLeast(p, x, viewport)
         /\ ~ScaledAtLeast(p, x + 1, viewport)
IsConverted(pt, viewport) ==
    IF PosW = 0 \/ PosH = 0 \/ viewport[1] = 0 \/ viewport[2] = 0
    THEN pt = <<20, 20>>
    ELSE /\ IsScaledCoord(pt[1], args.watermark_settings.custom_position[1],
                          PosW - Posw, viewport)
         /\ IsScaledCoord(pt[2], args.watermark_settings.custom_position[2],
                          PosH - Posh, viewport)

\* C14: the conversion returns (20, 20) when the image or the viewport has a
\* zero width or height, and otherwise the preview point divided by
\* scale = min(viewport_w/image_w, viewport_h/image_h), truncated and
\* clamped; (100,100) on 1600x1200 under 400x300 with a 50x50 overlay gives
\* (400, 400).  The quotient is the one of the numbers, as the statement
\* gives it: x is the result for p iff x <= p / scale < x + 1 before the
\* clamp.
C14_ConversionFormula ==
    ~NoCustom =>
        /\ ret.export # << >> => IsConverted(ret.export[1], <<400, 300>>)
        /\ ret.preview # << >> => IsConverted(ret.preview[1], args.preview_label)
        /\ (/\ args.watermark_settings.custom_position = <<100, 100>>
            /\ args.image_size = <<1600, 1200>>
            /\ args.overlay_size = <<50, 50>>)
           => /\ ret.export \in {<< >>, << <<400, 400>> >>}
              /\ args.preview_label = <<400, 300>>
                     => ret.preview \in {<< >>, << <<400, 400>> >>}

\* C15: for a custom position, the export and the preview use the same
\* image-space position, for every size the preview widget can have (at
\* least 400x300).
C15_SameViewport ==
    (/\ ~NoCustom
     /\ args.preview_label[1] >= 400 /\ args.preview_label[2] >= 300
     /\ ret.export # << >> /\ ret.preview # << >>)
    => ret.export = ret.preview

(***************************************************************************)
(* Properties of the font resolvers and the compositors                    *)
(***************************************************************************)
CjkFallback == {"Microsoft YaHei", "SimSun", "SimHei"}
\* The text has a code point of U+4E00-9FFF, U+3400-4DBF or U+20000-2A6DF.
ContainsCjk(text) ==
    \E c \in Range(text) :
        \/ c \in 19968..40959
        \/ c \in 13312..19903
        \/ c \in 131072..173791

\* C16: for a text with a CJK code point the first family whose font file
\* is looked for is one of Microsoft YaHei, SimSun, SimHei, whatever family
\* is requested, and a requested family outside that list is looked for
\* only after a family of the list.
C16_CjkFamilyFirst ==
    ContainsCjk(args.text) =>
        \A r \in {ret.export, ret.preview} \ {<< >>} :
            /\ Len(r[1].probed) > 0 => r[1].probed[1] \in CjkFallback
            /\ \A k \in 1..Len(r[1].probed) :
                   r[1].probed[k] = args.family =>
                       \/ args.family \in CjkFallback
                       \/ k > 1

\* The bold and bold-italic files of the table of variants.
RealBoldFiles == {MsYhBd, ArialBd, ArialBi, TimesBd, TimesBi}
\* The text draws of the latest preview render and the latest export render.
Draws == {d[1] : d \in {preview_draw, export_draw} \ {<< >>}}

\* C17: in both compositors the four-pass pseudo-bold draw happens iff bold
\* is requested and the font used is not a real bold; a font file that is a
\* real bold or bold-italic variant is drawn in one pass, also when the
\* export reuses a pre-resolved font path.
C17_PseudoBoldIffNoRealBold ==
    \A d \in Draws :
        /\ d.passes \in {1, 4}
        /\ d.passes = 4 <=> (d.is_bold /\ d.font.file \notin RealBoldFiles)

\* C18: the font the export uses for a text watermark is the one the
\* resolver selects for the family, bold, italic and text of the snapshot,
\* with the same style flags.
C18_ExportFontOfSnapshot ==
    export_draw # << >> =>
        LET ws == batch_settings.watermark_settings
            r == get_font_for_text(ws.font_family, ws.is_bold, ws.is_italic,
                                   ws.text, fonts)
        IN  /\ export_draw[1].font = r.font
            /\ export_draw[1].has_real_bold = r.has_real_bold

\* C19: after any sequence of anchor selections (position button, click off
\* the watermark) and drags, the empty one included, a render uses the
\* custom position iff the latest placement operation was a drag and the
\* named anchor otherwise; selecting an anchor clears custom_position.
\* Saving, choosing and deleting a template are not placement operations.
C19_OnePlacementActive ==
    /\ last_placement = "anchor" => dicts.app.custom_position = << >>
    /\ preview_draw # << >> =>
           /\ preview_draw[1].placement = "custom" <=> last_placement = "drag"
           /\ preview_draw[1].placement = "anchor"
                  => preview_draw[1].position = dicts.app.position
    /\ export_draw # << >> =>
           /\ export_draw[1].placement = "custom"
                  <=> batch_settings.watermark_settings.custom_position # << >>
           /\ export_draw[1].placement = "anchor"
                  => export_draw[1].position
                         = batch_settings.watermark_settings.position

\* C20: an output folder that is empty or does not exist on disk is a fatal
\* validation error of export_images: no worker is started for it, and no
\* job is attempted or counted as an error of its file.
C20_MissingFolderFatal ==
    /\ pc # "idle" =>
           /\ thread.output_folder # << >>
           /\ abspath(thread.output_folder) \in ExistingDirs
    /\ \A k \in 1..Len(attempts) : attempts[k].msg # NoDirMsg
    /\ error_count = Len(SelectSeq(attempts, IsFailed))

\* C21: with an anchor name outside the nine and no custom position, the
\* preview mapper and the export mapper both return the bottom_right
\* position (W-w-20, H-h-20), so they agree.
C21_UnknownAnchorBottomRight ==
    (~NamedAnchor /\ NoCustom) =>
        /\ PosResults \subseteq {<<PosW - Posw - 20, PosH - Posh - 20>>}
        /\ (ret.export # << >> /\ ret.preview # << >>) => ret.export = ret.preview

\* The file and the style flags the table of variants gives for a family:
\* the bold-italic file when both styles are asked for and the table has
\* one, else the bold file, else the italic file, else the regular file.
VariantOf(fam) ==
    LET has(n) == fam \in DOMAIN mapping /\ mapping[fam][n] # << >>
        kind == IF args.is_bold /\ args.is_italic /\ has(4) THEN 4
                ELSE IF args.is_bold /\ has(2) THEN 2
                ELSE IF args.is_italic /\ has(3) THEN 3
                ELSE 1
    IN  [file |-> IF has(kind) THEN mapping[fam][kind] ELSE << >>,
         bold |-> kind \in {2, 4},
         italic |-> kind \in {3, 4}]
\* The places of the search order whose variant file is on the machine.
Resolving(order) ==
    {k \in 1..Len(order) :
        VariantOf(order[k]).file # << >> /\ VariantOf(order[k]).file \in fonts.files}

\* C22: both resolvers always return a font.  The first family of the
\* search order whose variant file exists gives the font and the style
\* flags, and no later family is looked for; when no family resolves the
\* font is the one opened under the family name, else the default font,
\* with both style flags false.
C22_ResolutionOrder ==
    \A r \in {ret.export, ret.preview} \ {<< >>} :
        LET order == r[1].search_order
            hits == Resolving(order)
        IN  IF hits # {}
            THEN LET k0 == CHOOSE k \in hits : \A j \in hits : k <= j
                     v == VariantOf(order[k0])
                 IN  /\ r[1].font = [file |-> v.file, family |-> "", default |-> FALSE]
                     /\ r[1].has_real_bold = v.bold
                     /\ r[1].has_real_italic = v.italic
                     /\ Range(r[1].probed) \subseteq {order[j] : j \in 1..k0}
                     /\ r[1].probed[Len(r[1].probed)] = order[k0]
            ELSE /\ r[1].font.file = << >>
                 /\ r[1].font.default = (args.family \notin fonts.families)
                 /\ ~r[1].font.default => r[1].font.family = args.family
                 /\ ~r[1].has_real_bold
                 /\ ~r[1].has_real_italic

\* C23: for every opacity in 0..100 the alpha of the text colour is
\* 255 * opacity / 100 rounded to the nearest integer, in the preview and
\* in the export, and the alpha of the shadow is half of it, rounded down.
C23_AlphaRounded ==
    \A r \in {ret.export_text, ret.preview_text} \ {<< >>} :
        LET alpha == r[1].color[4]
            diff == 100 * alpha - 255 * args.opacity
        IN  /\ -50 <= diff /\ diff <= 50
            /\ r[1].shadow_color # << >> =>
                   /\ 2 * r[1].shadow_color[4] <= alpha
                   /\ alpha < 2 * r[1].shadow_color[4] + 2

\* C24: for every opacity in 0..100 the preview and the export paste the
\* same image watermark: its RGB channels are those of the file and its
\* alpha is old_alpha * opacity / 100, rounded down.
C24_SameImageOverlay ==
    /\ \A r \in {ret.export_image, ret.preview_image} \ {<< >>} :
           /\ <<r[1][1], r[1][2], r[1][3]>>
                  = <<args.pixel[1], args.pixel[2], args.pixel[3]>>
           /\ 100 * r[1][4] <= args.pixel[4] * args.opacity
           /\ args.pixel[4] * args.opacity < 100 * r[1][4] + 100
    /\ (ret.export_image # << >> /\ ret.preview_image # << >>)
           => ret.export_image = ret.preview_image

\* The result of the batch as run holds it.
RunResult ==
    [success_count |-> success_count, error_count |-> error_count,
     errors |-> errors]

\* A step of export_images that starts a worker.
BatchStart ==
    /\ export_calls' # export_calls
    /\ last_call'[1].outcome = "started"

\* C25: a started batch delivers its completion result once, after the
\* attempt on the last job and after every progress notification of the
\* batch, the batch being the files it was started with; the result is
\* (0, 0, []) at the start of the batch and grows by one count for each
\* finished attempt.  The batch is the one of the worker self.export_thread
\* refers to.
C25_CompletionDelivered ==
    /\ [](/\ Len(finished) <= 1
          /\ finished # << >> <=> pc = "done"
          /\ success_count + error_count = Len(attempts)
          /\ Len(errors) = error_count
          /\ pc = "done" =>
                 /\ finished[1] = RunResult
                 /\ \A j \in 1..Len(batch_list) :
                        /\ \E m \in 1..Len(attempts) :
                               /\ attempts[m].index = j
                               /\ attempts[m].path = batch_list[j]
                        /\ \E m \in 1..Len(progress) : progress[m].current = j)
    /\ [][/\ BatchStart =>
                 /\ RunResult' = [success_count |-> 0, error_count |-> 0,
                                  errors |-> << >>]
                 /\ finished' = << >>
                 /\ pc' = "next"
          /\ (pc \in {"next", "emit", "load", "save"} /\ ~BatchStart) =>
                 /\ attempts' = attempts => RunResult' = RunResult
                 /\ attempts' # attempts =>
                        /\ Len(attempts') = Len(attempts) + 1
                        /\ <<success_count', error_count'>>
                               \in {<<success_count + 1, error_count>>,
                                    <<success_count, error_count + 1>>}
          /\ pc = "done" /\ pc' = "done" =>
                 <<finished, progress, attempts>>' = <<finished, progress, attempts>>
         ]_vars

\* The files the batch has written in full.
SavedWrites == {w \in 1..Len(writes) : writes[w].saved}

\* C26: no two jobs of a batch write to the same output path, so that the
\* number of files the batch has written equals success_count and no output
\* is overwritten by a later job.
C26_DistinctOutputPaths ==
    /\ \A v, w \in 1..Len(writes) : v # w => writes[v].path # writes[w].path
    /\ pc = "done" =>
           Cardinality({writes[w].path : w \in SavedWrites}) = success_count

\* C27: a job counted as an error leaves nothing in the output folder: every
\* file the batch has opened for writing belongs to a job counted as a
\* success.
C27_FailedJobLeavesNoFile ==
    /\ \A w \in 1..Len(writes) : writes[w].saved
    /\ \A k \in 1..Len(attempts) :
           ~attempts[k].ok =>
               \A w \in 1..Len(writes) : writes[w].job # attempts[k].index

\* Where the watermark was in the preview when the button was pressed: the
\* custom position remembered at the press, else the position of the anchor.
PressPosition ==
    IF original_watermark_pos # << >> THEN original_watermark_pos
    ELSE get_current_watermark_position(
             [dicts.app EXCEPT !.custom_position = << >>], current_image,
             preview_label)

\* C28: during a drag, after every move event custom_position is the
\* position of the watermark at the press plus the displacement of the
\* pointer since the press, from an anchor as from a custom position; the
\* release clears dragging, drag_start_pos and original_watermark_pos and
\* leaves custom_position as it is.
C28_DragFollowsPointer ==
    [][/\ (dragging /\ dragging' /\ live_ops' # live_ops /\ last_placement' = "drag")
           => \E pos \in DragPoints :
                  dicts'.app.custom_position =
                      << PressPosition[1] + pos[1] - drag_start_pos[1],
                         PressPosition[2] + pos[2] - drag_start_pos[2] >>
       /\ (dragging /\ ~dragging')
           => /\ drag_start_pos' = << >>
              /\ original_watermark_pos' = << >>
              /\ dicts'.app.custom_position = dicts.app.custom_position
      ]_vars

====
